---- MODULE Spec2Model ----
(***************************************************************************)
(* Gears: tooth-profile sector extraction, angular containment, the        *)
(* angle-radius inverter and the equidistant resampler.                    *)
(*                                                                         *)
(* Angles are exact multiples of one lattice unit.  A quarter of the tooth *)
(* angle (HalfTooth.quater_angle) is QuarterUnits units, so the tooth      *)
(* angle is 4 * QuarterUnits units and 2*pi is tooth_num tooth angles.     *)
(* A point is kept in polar form [ang, rad] with ang normalised to         *)
(* [0, 2*pi), which identifies exactly the points with equal cartesian     *)
(* coordinates.                                                            *)
(***************************************************************************)
EXTENDS Integers, Sequences, FiniteSets, TLC

VARIABLES
    tooth_num,            \* GearParams.tooth_num of ht0
    ht0,                  \* GearSector.ht0.half_tooth_profile
    ht1,                  \* GearSector.ht1.half_tooth_profile
    full_tooth_profile,   \* GearSector.full_tooth_profile
    op,                   \* last GearSector method called
    sec_st, sec_en,       \* arguments of the last get_sector_profile call
    rot_ang,
    st_tooth_idx,         \* what _sortout_teeth returned in that call
    full_teeth_ins,
    en_tooth_idx,
    sector_profile,       \* the value returned (or the error raised)
    w_q_ang, w_st_ang, w_en_ang, \* arguments of an is_within_ang call
    within,               \* <<result>> of that call, <<>> before it
    func,                 \* angrad_func: the curve func and its parameters
    rad_sq,               \* the square of the target radius rad
    t_min, t_max,         \* the bracket
    is_t_inv,
    t_curr,               \* the last midpoint
    xy,                   \* the point (x, y) last evaluated in the loop
    iter,                 \* iterations of the for loop started so far
    warned,               \* the warning was printed
    pc,                   \* position in angrad_func
    t_lims0,              \* the bracket angrad_func was called with
    angrad_ret,           \* the tuple returned
    equi_func,            \* equidistant: func and its parameters
    t_st, t_en,           \* t_lims
    step,
    tolerance,            \* in tenths
    seg_num,
    t_range,
    points,               \* the points last evaluated
    pass_i,               \* passes of the for loop started so far
    equi_warned,          \* the warning was printed
    equi_pc,              \* position in equidistant
    equi_ret,             \* the value returned
    ht_pc,                \* position in HalfTooth.__init__
    ht_tooth_num,         \* GearParams.tooth_num
    module,               \* GearParams.module
    ad_coef, de_coef,     \* in quarters
    pitch_diameter, pitch_radius,     \* lengths are in eighths
    addendum, dedendum,
    outside_diameter, outside_radius,
    root_diameter, root_radius,
    half_tooth_profile,   \* HalfTooth.half_tooth_profile
    ll_args,              \* lineline_intersec: <<x1, y1, x2, y2, x3, y3, x4, y4>>
    ll_caller,            \* who called it
    ll_ret,               \* what it returned or raised
    rack_ret,             \* what Rack.get_data returned or raised
    sr_args,              \* seedrange: [st, en, seed, step]
    sr_ret,               \* <<res>> once it returned, <<>> before
    self_sector,          \* GearSector.sec_st, GearSector.sec_en as stored by __init__
    first_call,           \* arguments and result of the first get_sector_profile call
    clock_instance,       \* Singleton._instances[Clock]: a clock id, 0 when absent
    clocks,               \* the Clock objects created so far, by id
    ctor_pc,              \* per driver thread: position in GearSector.__init__
    ctor_ht,              \* per driver thread: the half tooth profile passed in
    ctor_absent,          \* per driver thread: what  cls not in _instances  gave
    obj_clock,            \* per driver thread: self.clock of the object built
    obj_profile,          \* per driver thread: self.full_tooth_profile
    uc_pc,                \* position in HalfTooth._calc_profile_params, from line 100
    invol_epitr_rad,      \* the theoretical junction of flank and fillet: radius
    invol_epitr_angle,    \* and angle
    is_tooth_undercut,
    base_radius,          \* GearParams.base_radius
    uc_outside_radius,    \* GearParams.outside_radius
    r_min, r_max,         \* the bracket of _find_involute_epitrochoid_intersection
    r_curr,               \* its last midpoint
    uc_iter,              \* passes of its for loop started so far
    uc_warned,            \* its warning was printed
    uc_calls,             \* the methods of the two paths called so far
    uc_evals,             \* the radii the two inverses were last evaluated at
    min_r_cont,           \* HalfTooth.min_r_cont, <<>> until it is set
    points_root,          \* HalfTooth.points_root, <<>> until it is set
    points_epitrochoid,
    points_involute,
    points_outside,
    gui_state,            \* ToolbarPlayer.state, "none" before the toolbar exists
    play_cmd,             \* the callback play_btn is bound to
    play_btn_on,          \* play_btn is NORMAL
    next_btn_on,          \* next_btn is NORMAL
    stop_btn_on,          \* stop_btn is NORMAL
    after_id,             \* GearsApp.after_id, 0 for None
    timers,               \* ids of the after() callbacks Tk still has to run
    active_mode,          \* GearsApp.active_mode
    run_first,            \* <<index>> of the first frame shown since play, <<>> before it
    gui_last,             \* the callback that ran last
    rk_args,              \* Rack: [st, en, circular_pitch, seeds, x_vals]
    rk_pt_sets,           \* Rack.get_data: pt_sets
    rk_arr,               \* Rack.get_data: the rows handed to np.array
    rk_data               \* Rack.get_data: <<columns returned>>, <<>> before the call

sectorVars == <<tooth_num, ht0, ht1, full_tooth_profile, op, sec_st, sec_en, rot_ang,
                st_tooth_idx, full_teeth_ins, en_tooth_idx, sector_profile>>

withinVars == <<w_q_ang, w_st_ang, w_en_ang, within>>

angradVars == <<func, rad_sq, t_min, t_max, is_t_inv, t_curr, xy, iter, warned, pc,
                t_lims0, angrad_ret>>

equiVars == <<equi_func, t_st, t_en, step, tolerance, seg_num, t_range, points, pass_i,
              equi_warned, equi_pc, equi_ret>>

htVars == <<ht_pc, ht_tooth_num, module, ad_coef, de_coef, pitch_diameter, pitch_radius,
            addendum, dedendum, outside_diameter, outside_radius, root_diameter,
            root_radius, half_tooth_profile>>

lineVars == <<ll_args, ll_caller, ll_ret, rack_ret>>

seedVars == <<sr_args, sr_ret>>

pureVars == <<self_sector, first_call>>

clockVars == <<clock_instance, clocks>>

ctorVars == <<ctor_pc, ctor_ht, ctor_absent, obj_clock, obj_profile>>

ucVars == <<uc_pc, invol_epitr_rad, invol_epitr_angle, is_tooth_undercut, base_radius,
           uc_outside_radius, r_min, r_max, r_curr, uc_iter, uc_warned, uc_calls, uc_evals,
           min_r_cont>>

segVars == <<points_root, points_epitrochoid, points_involute, points_outside>>

guiVars == <<gui_state, play_cmd, play_btn_on, next_btn_on, stop_btn_on, after_id, timers,
            active_mode, run_first, gui_last>>

rackVars == <<rk_args, rk_pt_sets, rk_arr, rk_data>>

extVars == <<ucVars, segVars, guiVars, rackVars>>

restVars == <<htVars, lineVars, seedVars, pureVars, clockVars, ctorVars, extVars>>

vars == <<sectorVars, withinVars, angradVars, equiVars, restVars>>

\* ---------------------------------------------------------------- bounds
QuarterUnits == 1
MaxTeeth == 3
MaxHalfPts == 3
MaxBracket == 2       \* initial t_min, t_max in -MaxBracket .. MaxBracket
MaxCurveRadius == 2   \* curve radii r, R in 1 .. MaxCurveRadius
MaxRadSq == 20        \* squared target radius in 0 .. MaxRadSq
MaxEighth == 8        \* t_st, t_en are 8 * m for m in -MaxEighth .. MaxEighth
MaxSpeed == 2         \* speeds of the straight test curves
MaxStepMult == 3      \* step is a multiple, up to this, of the step unit
MaxTolerance == 2     \* tolerance in tenths, 1 .. MaxTolerance
MaxModule == 10       \* module in 1 .. MaxModule
MaxCoefQuarters == 5  \* addendum and dedendum coefficients, in quarters
MaxCoord == 1         \* segment end coordinates in 0 .. MaxCoord
MaxSeedRange == 4     \* seedrange: st, en, seed in -MaxSeedRange .. MaxSeedRange
MaxSeedStep == 3      \* seedrange: step in 1 .. MaxSeedStep
ClockSteps == 2       \* Clock.step_cnt as set by the driver
MantissaBits == 3     \* significand width of the floating-point parameters
AngleSteps == 4       \* the junction angle is a multiple of pi / AngleSteps
RadiusSpread == 100   \* binades between the smallest base radius and the outside radii
MaxInterior == 1      \* samples equidistant puts between the two ends of a curve
MaxStepCnt == 12      \* largest argument of Clock.set_step_cnt
MaxPending == 3       \* after() callbacks Tk can hold pending at once
MaxPitchMult == 2     \* Rack: circular_pitch is 2 * step_cnt * (1 .. MaxPitchMult)
MaxProj == 2          \* Rack: y_proj_de, y_proj_ad in 0 .. MaxProj
MaxRackDepth == 1     \* Rack: addendum, dedendum in 1 .. MaxRackDepth

\* ---------------------------------------------------------------- angles
ToothAngle == 4 * QuarterUnits

TwoPi(n) == n * ToothAngle

Remainder(a, m) == a % m

\* ---------------------------------------------------------------- geometry
\* the conjunction taken whatever the order of the edges
is_within_ang_and(q_ang, st_ang, en_ang) ==
    (st_ang <= q_ang) /\ (q_ang < en_ang)

\* the mutation: equal edges take the conjunction, an empty interval
is_within_ang_empty(q_ang, st_ang, en_ang) ==
    IF st_ang <= en_ang
    THEN (st_ang <= q_ang) /\ (q_ang < en_ang)
    ELSE (st_ang <= q_ang) \/ (q_ang < en_ang)

is_within_ang(q_ang, st_ang, en_ang) ==
    IF st_ang < en_ang
    THEN (st_ang <= q_ang) /\ (q_ang < en_ang)
    ELSE (st_ang <= q_ang) \/ (q_ang < en_ang)

Point(a, r) == [ang |-> a, rad |-> r]

cartesian_to_polar_ang(p, n) == Remainder(p.ang, TwoPi(n))

rotate(curve, angle, n) ==
    [i \in DOMAIN curve |-> Point(Remainder(curve[i].ang + angle, TwoPi(n)), curve[i].rad)]

mirror(p, n) == Point(Remainder(2 * (0 - QuarterUnits) - p.ang, TwoPi(n)), p.rad)

Reverse(s) == [i \in 1..Len(s) |-> s[Len(s) + 1 - i]]

DropFirst(s) == IF Len(s) = 0 THEN <<>> ELSE Tail(s)

RECURSIVE StackRest(_)
StackRest(curves) ==
    IF Len(curves) = 0 THEN <<>>
    ELSE DropFirst(Head(curves)) \o StackRest(Tail(curves))

\* the mutation: every curve is taken whole
RECURSIVE stack_curves_whole(_)
stack_curves_whole(curves) ==
    IF Len(curves) = 0 THEN <<>>
    ELSE Head(curves) \o stack_curves_whole(Tail(curves))

stack_curves(curves) ==
    IF Len(curves) = 0 THEN <<>>
    ELSE Head(curves) \o StackRest(Tail(curves))

populate_circ(curve, num) ==
    stack_curves([i \in 1..num |-> rotate(curve, ToothAngle * (i - 1), num)])

\* ---------------------------------------------------------------- half tooth
\* A half tooth profile runs from the root circle at -quater_angle to the
\* outside circle at +quater_angle; the samples in between lie anywhere in
\* that range.  The radius labels the sample: the last one is on the
\* outside circle.
HalfAngles == (0 - QuarterUnits) .. QuarterUnits

HalfRad(i, len) == IF i = len THEN MaxHalfPts ELSE i

HalfToothProfiles(n) ==
    UNION { { [i \in 1..len |-> Point(Remainder(a[i], TwoPi(n)), HalfRad(i, len))] :
                a \in { f \in [1..len -> HalfAngles] :
                          f[1] = 0 - QuarterUnits /\ f[len] = QuarterUnits } } :
            len \in 2..MaxHalfPts }

\* the mutation: the mirrored half not reversed
build_full_tooth_unreversed(h0, h1, n) ==
    LET reflected == [i \in DOMAIN h1 |-> mirror(h1[i], n)]
    IN  stack_curves(<<reflected, h0>>)

build_full_tooth(h0, h1, n) ==
    LET reflected == [i \in DOMAIN h1 |-> mirror(h1[i], n)]
    IN  stack_curves(<<Reverse(reflected), h0>>)

\* ---------------------------------------------------------------- GearSector
Teeth(n) == 0 .. (n - 1)

\* np.nonzero(bm)[0]: the indices of the true entries, ascending
RECURSIVE NonzeroFrom(_, _, _)
NonzeroFrom(bm, k, n) ==
    IF k >= n THEN <<>>
    ELSE (IF bm[k] THEN <<k>> ELSE <<>>) \o NonzeroFrom(bm, k + 1, n)

Nonzero(bm, n) == NonzeroFrom(bm, 0, n)

\* np.roll(a, 1) of a sequence: the last entry moves to the front
Roll1(s) == IF Len(s) = 0 THEN s ELSE <<s[Len(s)]>> \o SubSeq(s, 1, Len(s) - 1)

\* the index list left in ascending order (the rotation loop skipped)
RollSkipped(ins, st_idx, n, rolls) == [hang |-> FALSE, ins |-> ins]

\* the loop  while (full_teeth_ins[0] - 1) % tooth_num != st_tooth_idx;
\* after Len(ins) rolls the list is back where it started, so the loop
\* never ends: reported as hang
RECURSIVE RollUntilContiguous(_, _, _, _)
RollUntilContiguous(ins, st_idx, n, rolls) ==
    IF Remainder(ins[1] - 1, n) = st_idx THEN [hang |-> FALSE, ins |-> ins]
    ELSE IF rolls >= Len(ins) THEN [hang |-> TRUE, ins |-> ins]
    ELSE RollUntilContiguous(Roll1(ins), st_idx, n, rolls + 1)

\* the mutation: the tooth starts are not reduced modulo 2*pi
teeth_sts_unreduced(profile, rot, n) ==
    LET ang0 == cartesian_to_polar_ang(profile[1], n) + rot
    IN  [k \in Teeth(n) |-> ang0 + ToothAngle * k]

teeth_sts(profile, rot, n) ==
    LET ang0 == cartesian_to_polar_ang(profile[1], n) + rot
    IN  [k \in Teeth(n) |-> Remainder(ang0 + ToothAngle * k, TwoPi(n))]

\* the mutation: the ends not rolled, each tooth ending where it starts
teeth_ens_unrolled(profile, rot, n) == teeth_sts(profile, rot, n)

teeth_ens(profile, rot, n) ==
    LET sts == teeth_sts(profile, rot, n)
    IN  [k \in Teeth(n) |-> sts[Remainder(k + 1, n)]]

\* the mutation: without the line  teeth_sts_in_sector_bm |= teeth_sts == sec_en
teeth_sts_in_sector_bm_strict(profile, st, en, rot, n) ==
    LET sts == teeth_sts(profile, rot, n)
    IN  [k \in Teeth(n) |-> is_within_ang(sts[k], st, en)]

teeth_sts_in_sector_bm(profile, st, en, rot, n) ==
    LET sts == teeth_sts(profile, rot, n)
    IN  [k \in Teeth(n) |-> is_within_ang(sts[k], st, en) \/ sts[k] = en]

seg_within_tooth_bm(profile, seg_edge, rot, n) ==
    LET sts == teeth_sts(profile, rot, n)
        ens == teeth_ens(profile, rot, n)
    IN  [k \in Teeth(n) |-> is_within_ang(seg_edge, sts[k], ens[k])]

full_teeth_bm(profile, st, en, rot, n) ==
    LET sts_in == teeth_sts_in_sector_bm(profile, st, en, rot, n)
        ens_in == [k \in Teeth(n) |-> sts_in[Remainder(k + 1, n)]]
        st_in_tooth == seg_within_tooth_bm(profile, st, rot, n)
        en_in_tooth == seg_within_tooth_bm(profile, en, rot, n)
        integer_teeth == [k \in Teeth(n) |-> ~(st_in_tooth[k] \/ en_in_tooth[k])]
    IN  [k \in Teeth(n) |-> sts_in[k] /\ ens_in[k] /\ integer_teeth[k]]

\* status: "ok", "IndexError" (np.nonzero(...)[0][0] on an empty array) or
\* "hang" (the rotation loop does not end)
sortout_teeth(profile, st, en, rot, n) ==
    LET st_idxs == Nonzero(seg_within_tooth_bm(profile, st, rot, n), n)
        en_idxs == Nonzero(seg_within_tooth_bm(profile, en, rot, n), n)
        full == Nonzero(full_teeth_bm(profile, st, en, rot, n), n)
    IN  IF Len(st_idxs) = 0
        THEN [status |-> "IndexError", st |-> -1, full |-> <<>>, en |-> -1]
        ELSE LET rolled == IF Len(full) = 0 THEN [hang |-> FALSE, ins |-> full]
                           ELSE RollUntilContiguous(full, st_idxs[1], n, 0)
             IN  IF rolled.hang
                 THEN [status |-> "hang", st |-> st_idxs[1], full |-> rolled.ins, en |-> -1]
                 ELSE IF Len(en_idxs) = 0
                 THEN [status |-> "IndexError", st |-> st_idxs[1], full |-> rolled.ins, en |-> -1]
                 ELSE [status |-> "ok", st |-> st_idxs[1], full |-> rolled.ins, en |-> en_idxs[1]]

\* 1-based positions of the points of a rotated tooth that are in the sector
PtIns(tooth, st, en, n) ==
    { i \in DOMAIN tooth : is_within_ang(cartesian_to_polar_ang(tooth[i], n), st, en) }

SetMin(S) == CHOOSE x \in S : \A y \in S : x <= y
SetMax(S) == CHOOSE x \in S : \A y \in S : x >= y

get_term_tooth_profile(profile, tooth_idx, st, en, rot, is_en, n) ==
    LET tooth == rotate(profile, ToothAngle * tooth_idx + rot, n)
        ins == PtIns(tooth, st, en, n)
    IN  IF is_en
        THEN (IF ins = {} THEN <<>> ELSE SubSeq(tooth, 1, SetMax(ins)))
        ELSE (IF ins = {} THEN SubSeq(tooth, Len(tooth), Len(tooth))
              ELSE SubSeq(tooth, SetMin(ins), Len(tooth)))

IsSingleTooth(so) == Len(so.full) = 0 /\ so.st = so.en

\* the single tooth branch returning an empty profile instead of raising
single_tooth_profile_empty(tooth, st, en, n) ==
    LET ins == PtIns(tooth, st, en, n)
    IN  IF ins = {} THEN [status |-> "ok", pts |-> <<>>]
        ELSE [status |-> "ok", pts |-> SubSeq(tooth, SetMin(ins), SetMax(ins))]

\* the single tooth branch of get_sector_profile: the slice from the first
\* to the last point inside the sector; pt_ins[0] on an empty array raises
\* IndexError, re-raised as ValueError
single_tooth_profile(tooth, st, en, n) ==
    LET ins == PtIns(tooth, st, en, n)
    IN  IF ins = {} THEN [status |-> "ValueError", pts |-> <<>>]
        ELSE [status |-> "ok", pts |-> SubSeq(tooth, SetMin(ins), SetMax(ins))]

\* the value returned: [status, pts]; status "ValueError" is the raised
\* 'The segment is too narrow; no points inside!'
get_sector_profile(profile, st, en, rot, n) ==
    LET so == sortout_teeth(profile, st, en, rot, n)
    IN  IF so.status # "ok" THEN [status |-> so.status, pts |-> <<>>]
        ELSE IF IsSingleTooth(so)
        THEN single_tooth_profile(rotate(profile, ToothAngle * so.st + rot, n), st, en, n)
        ELSE LET st_tooth == get_term_tooth_profile(profile, so.st, st, en, rot, FALSE, n)
                 fulls == [j \in 1..Len(so.full) |->
                              rotate(profile, ToothAngle * so.full[j] + rot, n)]
                 en_tooth == get_term_tooth_profile(profile, so.en, st, en, rot, TRUE, n)
             IN  [status |-> "ok",
                  pts |-> stack_curves(<<st_tooth>> \o fulls \o <<en_tooth>>)]

get_gear_profile(profile, n) == populate_circ(profile, n)

\* ---------------------------------------------------------------- inputs
SecAngles(n) == 0 .. TwoPi(n)
RotAngles(n) == (0 - ToothAngle) .. (TwoPi(n) - 1)

\* ---------------------------------------------------------------- behaviour
NoCall == [status |-> "none", pts |-> <<>>]

\* GearSector(tooth, tooth, ...) as the application constructs it
GearSectorInit(n) ==
    /\ tooth_num = n
    /\ ht0 \in HalfToothProfiles(n)
    /\ ht1 = ht0
    /\ full_tooth_profile = build_full_tooth(ht0, ht1, n)
    /\ op = "init"
    /\ sec_st = 0 /\ sec_en = 0 /\ rot_ang = 0
    /\ st_tooth_idx = -1 /\ full_teeth_ins = <<>> /\ en_tooth_idx = -1
    /\ sector_profile = NoCall

\* no is_within_ang call and no angrad_func call in progress
WithinIdle == w_q_ang = 0 /\ w_st_ang = 0 /\ w_en_ang = 0 /\ within = <<>>

AngradIdle ==
    /\ func = [kind |-> "none"] /\ rad_sq = 0 /\ t_min = 0 /\ t_max = 0
    /\ is_t_inv = FALSE /\ t_curr = 0 /\ xy = [t |-> 0, norm_sq |-> 0]
    /\ iter = 0 /\ warned = FALSE /\ pc = "idle" /\ t_lims0 = <<0, 0>>
    /\ angrad_ret = [status |-> "none"]

\* no equidistant call in progress
EquiIdle ==
    /\ equi_func = [kind |-> "none"] /\ t_st = 0 /\ t_en = 0 /\ step = 0 /\ tolerance = 0
    /\ seg_num = 0 /\ t_range = <<>> /\ points = <<>> /\ pass_i = 0
    /\ equi_warned = FALSE /\ equi_pc = "idle" /\ equi_ret = <<>>

\* no HalfTooth under construction
HalfToothIdle ==
    /\ ht_pc = "idle" /\ ht_tooth_num = 0 /\ module = 0 /\ ad_coef = 0 /\ de_coef = 0
    /\ pitch_diameter = 0 /\ pitch_radius = 0 /\ addendum = 0 /\ dedendum = 0
    /\ outside_diameter = 0 /\ outside_radius = 0 /\ root_diameter = 0 /\ root_radius = 0
    /\ half_tooth_profile = <<>>

\* no lineline_intersec call
LineIdle == ll_args = <<>> /\ ll_caller = "none" /\ ll_ret = [status |-> "none"]
            /\ rack_ret = [status |-> "none"]

\* no seedrange call
SeedIdle == sr_args = [st |-> 0, en |-> 0, seed |-> 0, step |-> 0] /\ sr_ret = <<>>

\* no call history kept
PureIdle == self_sector = <<>> /\ first_call = [status |-> "none"]

\* no Clock created
ClockIdle == clock_instance = 0 /\ clocks = <<>>

\* no construction in progress
CtorIdle == ctor_pc = <<>> /\ ctor_ht = <<>> /\ ctor_absent = <<>> /\ obj_clock = <<>>
            /\ obj_profile = <<>>

UndercutIdle ==
    /\ uc_pc = "none" /\ invol_epitr_rad = 0 /\ invol_epitr_angle = 0
    /\ is_tooth_undercut = FALSE /\ base_radius = 0 /\ uc_outside_radius = 0
    /\ r_min = 0 /\ r_max = 0 /\ r_curr = 0 /\ uc_iter = 0 /\ uc_warned = FALSE
    /\ uc_calls = <<>> /\ uc_evals = <<>> /\ min_r_cont = <<>>

SegIdle ==
    /\ points_root = <<>> /\ points_epitrochoid = <<>>
    /\ points_involute = <<>> /\ points_outside = <<>>

\* no toolbar, no application
GuiIdle ==
    /\ gui_state = "none" /\ play_cmd = "none"
    /\ play_btn_on = FALSE /\ next_btn_on = FALSE /\ stop_btn_on = FALSE
    /\ after_id = 0 /\ timers = {} /\ active_mode = FALSE
    /\ run_first = <<>> /\ gui_last = "none"

\* no Rack
RackIdle ==
    /\ rk_args = [st |-> 0, en |-> 0, circular_pitch |-> 0, seeds |-> <<>>, x_vals |-> <<>>]
    /\ rk_pt_sets = <<>> /\ rk_arr = <<>> /\ rk_data = <<>>

ExtIdle == UndercutIdle /\ SegIdle /\ GuiIdle /\ RackIdle

RestIdle == HalfToothIdle /\ LineIdle /\ SeedIdle /\ PureIdle /\ ClockIdle /\ CtorIdle /\ ExtIdle

Init == (\E n \in 1..MaxTeeth : GearSectorInit(n)) /\ WithinIdle /\ AngradIdle /\ EquiIdle /\ RestIdle

\* one call of get_sector_profile on the constructed object; the object is
\* idle (op = "init") between calls
\* the mutation: the tooth rotated in place, so that the stored profile
\* keeps the rotation of the call
profile_after_call_rotated(profile, st, en, rot, n) == rotate(profile, rot, n)

\* self.full_tooth_profile after get_sector_profile: rotate builds a new
\* array, the slices are views that are only read, np.hstack copies
profile_after_call(profile, st, en, rot, n) == profile

SectorCallCore(st, en, rot) ==
    LET so == sortout_teeth(full_tooth_profile, st, en, rot, tooth_num)
    IN  /\ op = "init"
        /\ op' = "get_sector_profile"
        /\ sec_st' = st /\ sec_en' = en /\ rot_ang' = rot
        /\ st_tooth_idx' = so.st
        /\ full_teeth_ins' = so.full
        /\ en_tooth_idx' = so.en
        /\ sector_profile' = get_sector_profile(full_tooth_profile, st, en, rot, tooth_num)
        /\ full_tooth_profile' = profile_after_call(full_tooth_profile, st, en, rot, tooth_num)
        /\ UNCHANGED <<tooth_num, ht0, ht1, withinVars, angradVars, equiVars>>

CallSectorProfile(st, en, rot) == SectorCallCore(st, en, rot) /\ UNCHANGED restVars

GetSectorProfile ==
    \E st \in SecAngles(tooth_num), en \in SecAngles(tooth_num), rot \in RotAngles(tooth_num) :
        CallSectorProfile(st, en, rot)

GetGearProfile ==
    /\ op = "init"
    /\ op' = "get_gear_profile"
    /\ sector_profile' = [status |-> "ok", pts |-> get_gear_profile(full_tooth_profile, tooth_num)]
    /\ UNCHANGED <<tooth_num, ht0, ht1, full_tooth_profile, sec_st, sec_en, rot_ang,
                   st_tooth_idx, full_teeth_ins, en_tooth_idx, withinVars, angradVars, equiVars, restVars>>

\* the caller has consumed the returned value; the object is as constructed
Return ==
    /\ op # "init"
    /\ op' = "init"
    /\ sec_st' = 0 /\ sec_en' = 0 /\ rot_ang' = 0
    /\ st_tooth_idx' = -1 /\ full_teeth_ins' = <<>> /\ en_tooth_idx' = -1
    /\ sector_profile' = NoCall
    /\ UNCHANGED <<tooth_num, ht0, ht1, full_tooth_profile, withinVars, angradVars, equiVars, restVars>>

Next == GetSectorProfile \/ GetGearProfile \/ Return

Spec == Init /\ [][Next]_vars

\* ---------------------------------------------------------------- the 18-tooth gear
\* HalfTooth(tooth_num=18, ...) and the sector (3*pi/2, pi/2) of the first gear
DemoToothNum == 18

Init18 == GearSectorInit(DemoToothNum) /\ WithinIdle /\ AngradIdle /\ EquiIdle /\ RestIdle

GetSectorProfile18 ==
    \E rot \in RotAngles(tooth_num) :
        CallSectorProfile(3 * QuarterUnits * tooth_num, QuarterUnits * tooth_num, rot)

Next18 == GetSectorProfile18 \/ Return

Spec18 == Init18 /\ [][Next18]_vars

\* ---------------------------------------------------------------- claims: sector extraction
Called == op = "get_sector_profile"

\* consecutive equal points (seam duplicates) removed
RECURSIVE DedupSeams(_)
DedupSeams(seq) ==
    IF Len(seq) <= 1 THEN seq
    ELSE IF seq[1] = seq[2] THEN DedupSeams(Tail(seq))
    ELSE <<seq[1]>> \o DedupSeams(Tail(seq))

\* C1: get_sector_profile(0, 2*pi, 0) returns the point sequence of
\* get_gear_profile, every tooth once, up to seam de-duplication.
C1_FullSectorEqualsGearProfile ==
    (Called /\ sec_st = 0 /\ sec_en = TwoPi(tooth_num) /\ rot_ang = 0)
        => /\ sector_profile.status = "ok"
           /\ DedupSeams(sector_profile.pts)
                 = DedupSeams(get_gear_profile(full_tooth_profile, tooth_num))

\* C2: for sector edges in [0, 2*pi) and any rotation offset, every returned
\* point has its polar angle inside the sector (start inclusive, end
\* exclusive, wraparound aware).
C2_AllPointsInsideSector ==
    (Called /\ sec_st < TwoPi(tooth_num) /\ sec_en < TwoPi(tooth_num))
        => \A i \in DOMAIN sector_profile.pts :
               is_within_ang(cartesian_to_polar_ang(sector_profile.pts[i], tooth_num),
                             sec_st, sec_en)

TeethRun == <<st_tooth_idx>> \o full_teeth_ins \o <<en_tooth_idx>>

\* C3: 18 teeth, sector [3*pi/2, pi/2): for every rotation offset the tooth
\* indices (start tooth, full teeth in list order, end tooth) are
\* consecutive modulo 18, none skipped and none twice.
C3_TeethContiguousAcrossSeam ==
    Called =>
        /\ sector_profile.status = "ok"
        /\ \A i \in 1 .. (Len(TeethRun) - 1) :
               TeethRun[i + 1] = Remainder(TeethRun[i] + 1, tooth_num)
        /\ \A i, j \in DOMAIN TeethRun : i # j => TeethRun[i] # TeethRun[j]

\* a call whose full teeth run across the index seam 17 -> 0
C3_Witness ==
    /\ Called /\ tooth_num = DemoToothNum
    /\ \E i \in 1 .. (Len(full_teeth_ins) - 1) :
           full_teeth_ins[i] = tooth_num - 1 /\ full_teeth_ins[i + 1] = 0

\* every angle of the half-open span of tooth k is inside the sector
ToothInsideSector(k) ==
    LET sts == teeth_sts(full_tooth_profile, rot_ang, tooth_num)
    IN  \A d \in 0 .. (ToothAngle - 1) :
            is_within_ang(Remainder(sts[k] + d, TwoPi(tooth_num)), sec_st, sec_en)

Occurrences(block, seq) ==
    Cardinality({ j \in 1 .. (Len(seq) - Len(block) + 1) :
                    SubSeq(seq, j, j + Len(block) - 1) = block })

\* the points of tooth k after its seam point occur as one block, once
ToothOnce(k) ==
    Occurrences(Tail(rotate(full_tooth_profile, ToothAngle * k + rot_ang, tooth_num)),
                sector_profile.pts) = 1

\* C4: for every sector and rotation offset, each tooth whose span lies
\* entirely inside the sector contributes its complete point sequence
\* exactly once.
C4_InsideTeethExactlyOnce ==
    Called =>
        \A k \in Teeth(tooth_num) :
            ToothInsideSector(k) => sector_profile.status = "ok" /\ ToothOnce(k)

\* C5: sector start and end within the same tooth, no full tooth and no
\* sampled point of that tooth inside the sector: ValueError is raised.
C5_NarrowSectorRaises ==
    (/\ Called
     /\ st_tooth_idx = en_tooth_idx
     /\ full_teeth_ins = <<>>
     /\ PtIns(rotate(full_tooth_profile, ToothAngle * st_tooth_idx + rot_ang, tooth_num),
              sec_st, sec_en, tooth_num) = {})
        => sector_profile.status = "ValueError" /\ sector_profile.pts = <<>>

\* a narrow sector strictly between two samples of a gear with several teeth
C5_Witness ==
    /\ Called /\ tooth_num > 1 /\ sec_st < sec_en
    /\ st_tooth_idx = en_tooth_idx /\ full_teeth_ins = <<>>
    /\ sector_profile.status = "ValueError"

\* ---------------------------------------------------------------- is_within_ang alone
\* no GearSector has been constructed
SectorAbsent ==
    /\ tooth_num = 0 /\ ht0 = <<>> /\ ht1 = <<>> /\ full_tooth_profile = <<>>
    /\ op = "none" /\ sec_st = 0 /\ sec_en = 0 /\ rot_ang = 0
    /\ st_tooth_idx = -1 /\ full_teeth_ins = <<>> /\ en_tooth_idx = -1
    /\ sector_profile = NoCall

\* angles of [0, 2*pi) on the lattice of the largest gear
Angles == 0 .. (TwoPi(MaxTeeth) - 1)

InitWithin ==
    /\ SectorAbsent /\ AngradIdle /\ EquiIdle /\ RestIdle
    /\ w_q_ang \in Angles /\ w_st_ang \in Angles /\ w_en_ang \in Angles
    /\ within = <<>>

CallIsWithinAng ==
    /\ within = <<>>
    /\ within' = <<is_within_ang(w_q_ang, w_st_ang, w_en_ang)>>
    /\ UNCHANGED <<w_q_ang, w_st_ang, w_en_ang, sectorVars, angradVars, equiVars, restVars>>

NextWithin == CallIsWithinAng

SpecWithin == InitWithin /\ [][NextWithin]_vars

\* q lies on the counter-clockwise arc that starts at st (inclusive) and
\* stops before en
OnArc(q, st, en) ==
    Remainder(q - st, TwoPi(MaxTeeth)) < Remainder(en - st, TwoPi(MaxTeeth))

\* C6: for q, start, end in [0, 2*pi), is_within_ang is true exactly on the
\* counter-clockwise arc [start, end): the conjunction for start < end, the
\* disjunction for start > end.
C6_WithinIsArcMembership ==
    (within # <<>> /\ w_st_ang # w_en_ang) =>
        /\ within[1] = OnArc(w_q_ang, w_st_ang, w_en_ang)
        /\ w_st_ang < w_en_ang => (within[1] = (w_st_ang <= w_q_ang /\ w_q_ang < w_en_ang))
        /\ w_st_ang > w_en_ang => (within[1] = (w_st_ang <= w_q_ang \/ w_q_ang < w_en_ang))

\* a query past the seam inside an arc that crosses it
C6_Witness ==
    /\ within = <<TRUE>> /\ w_st_ang > w_en_ang /\ w_q_ang < w_en_ang

\* ---------------------------------------------------------------- angle-radius inverter
\* Parameters t are integers; a curve is given by the square of its radial
\* distance, which is exact for integer parameters:
\*   involute:          |f(t)|^2 = r^2 * (1 + t^2)
\*   epitrochoid_flat:  |f(t)|^2 = (R - l)^2 + t^2 * R^2
\* The target radius is given by its square, so that  norm < rad  and
\* norm == rad  are decided exactly.
NormSq(f, t) ==
    IF f.kind = "involute" THEN f.r * f.r * (1 + t * t)
    ELSE (f.R - f.l) * (f.R - f.l) + t * t * f.R * f.R

\* func(t): the point, identified by its parameter and its distance
Func(f, t) == [t |-> t, norm_sq |-> NormSq(f, t)]

Curves ==
    { [kind |-> "involute", r |-> r] : r \in 1..MaxCurveRadius }
    \cup { [kind |-> "epitrochoid_flat", R |-> R, l |-> l] :
             R \in 1..MaxCurveRadius, l \in 0..1 }

\* np.mean([t_min, t_max]) rounded to a representable parameter: either
\* neighbour when the exact mean is not representable
Mean(a, b) == { (a + b) \div 2, (a + b + 1) \div 2 }

\* the two assignments exchanged
NarrowedSwapped(f, target_sq, mid, lo, hi) ==
    IF NormSq(f, mid) < target_sq THEN <<lo, mid>> ELSE <<mid, hi>>

\* if r_curr < rad: t_min = t_curr   else: t_max = t_curr
Narrowed(f, target_sq, mid, lo, hi) ==
    IF NormSq(f, mid) < target_sq THEN <<mid, hi>> ELSE <<lo, mid>>

StrictlyBetween(t, lo, hi, inv) == IF inv THEN lo > t /\ t > hi ELSE lo < t /\ t < hi

BisectCap == 100

Brackets == (0 - MaxBracket) .. MaxBracket

InitAngrad ==
    /\ SectorAbsent /\ WithinIdle /\ EquiIdle /\ RestIdle
    /\ func \in Curves
    /\ rad_sq \in 0..MaxRadSq
    /\ t_min \in Brackets /\ t_max \in Brackets
    /\ t_lims0 = <<t_min, t_max>>
    /\ is_t_inv = (t_max < t_min)
    /\ t_curr = 0 /\ xy = [t |-> 0, norm_sq |-> 0]
    /\ iter = 0 /\ warned = FALSE
    /\ pc = "while"
    /\ angrad_ret = [status |-> "none"]

\* while np.linalg.norm(func(t_max)) < rad
AngradWhile ==
    /\ pc = "while"
    /\ pc' = IF NormSq(func, t_max) < rad_sq THEN "expand" ELSE "for"
    /\ UNCHANGED <<func, rad_sq, t_min, t_max, is_t_inv, t_curr, xy, iter, warned,
                   t_lims0, angrad_ret, sectorVars, withinVars, equiVars, restVars>>

\* t_min, t_max = t_max, t_max + (t_max - t_min) * 2
AngradExpand ==
    /\ pc = "expand"
    /\ t_min' = t_max
    /\ t_max' = t_max + (t_max - t_min) * 2
    /\ pc' = "while"
    /\ UNCHANGED <<func, rad_sq, is_t_inv, t_curr, xy, iter, warned,
                   t_lims0, angrad_ret, sectorVars, withinVars, equiVars, restVars>>

Returned(point, t) == [status |-> "ok", xy |-> point, t |-> t]

\* one iteration of  for _ in range(100), or its else clause
AngradFor ==
    /\ pc = "for"
    /\ IF iter >= BisectCap
       THEN /\ warned' = TRUE
            /\ pc' = "done"
            /\ angrad_ret' = Returned(xy, t_curr)
            /\ UNCHANGED <<t_min, t_max, t_curr, xy, iter>>
       ELSE \E mid \in Mean(t_min, t_max) :
            /\ t_curr' = mid
            /\ xy' = Func(func, mid)
            /\ IF NormSq(func, mid) = rad_sq \/ ~StrictlyBetween(mid, t_min, t_max, is_t_inv)
               THEN /\ pc' = "done"
                    /\ angrad_ret' = Returned(Func(func, mid), mid)
                    /\ UNCHANGED <<t_min, t_max, iter, warned>>
               ELSE /\ t_min' = Narrowed(func, rad_sq, mid, t_min, t_max)[1]
                    /\ t_max' = Narrowed(func, rad_sq, mid, t_min, t_max)[2]
                    /\ iter' = iter + 1
                    /\ UNCHANGED <<pc, angrad_ret, warned>>
    /\ UNCHANGED <<func, rad_sq, is_t_inv, t_lims0, sectorVars, withinVars, equiVars, restVars>>

NextAngrad == AngradWhile \/ AngradExpand \/ AngradFor

SpecAngrad == InitAngrad /\ [][NextAngrad]_vars

\* the interpreter keeps executing the call
SpecAngradFair == SpecAngrad /\ WF_vars(NextAngrad)

\* ---------------------------------------------------------------- claims: angle-radius inverter
SearchDir == IF t_lims0[2] < t_lims0[1] THEN -1 ELSE 1

\* parameters visited lie within this distance of the initial t_min
Horizon == 16 * (MaxBracket + 1)

\* the radial distance does not decrease from t0 on, going in direction dir
MonotoneFrom(f, t0, dir) ==
    \A k \in 0 .. (Horizon - 1) :
        NormSq(f, t0 + dir * k) <= NormSq(f, t0 + dir * (k + 1))

Abs(a) == IF a < 0 THEN 0 - a ELSE a

\* C7: for a curve whose radial distance is non-decreasing along the search
\* direction and a target attained at or beyond t_min, the returned (x, y)
\* is the curve at the returned t, and its radius and the target both lie
\* between the radii at the two ends of the final bracket, which has
\* closed to adjacent parameters unless the radius met the target exactly.
C7_InverterReturnsPointAtTargetRadius ==
    (/\ pc = "done"
     /\ MonotoneFrom(func, t_lims0[1], SearchDir)
     /\ NormSq(func, t_lims0[1]) <= rad_sq)
        => /\ angrad_ret.xy = Func(func, angrad_ret.t)
           /\ NormSq(func, t_min) <= angrad_ret.xy.norm_sq
           /\ angrad_ret.xy.norm_sq <= NormSq(func, t_max)
           /\ NormSq(func, t_min) <= rad_sq
           /\ rad_sq <= NormSq(func, t_max)
           /\ \/ angrad_ret.xy.norm_sq = rad_sq
              \/ Abs(t_max - t_min) <= 1
              \/ warned

\* a call that expanded the bracket, bisected more than once and returned a
\* point off the target radius
C7_Witness ==
    /\ pc = "done" /\ iter >= 2
    /\ MonotoneFrom(func, t_lims0[1], SearchDir)
    /\ NormSq(func, t_lims0[1]) <= rad_sq
    /\ t_min # t_lims0[1]
    /\ angrad_ret.xy.norm_sq # rad_sq

\* C8: every call of the inverter finishes after finitely many steps,
\* whatever the target radius and the initial bracket.
C8_InverterTerminates == <>(pc = "done")

\* ---------------------------------------------------------------- equidistant (transforms.py)
\* The curves sampled here run along one axis, so a point is its position
\* on that axis and the norm of a difference is its absolute value: a
\* straight run at constant speed v, and a run whose speed grows with t.
CurvePos(f, t) == IF f.kind = "line" THEN f.v * t ELSE t * t

EquiCurves == [kind : {"line"}, v : 1..MaxSpeed] \cup {[kind |-> "square"]}

\* func(t_range, *args, **kwargs)
EvalCurve(f, ts) == [k \in DOMAIN ts |-> CurvePos(f, ts[k])]

CeilDiv(a, b) == (a + b - 1) \div b

\* np.arange(start, stop, stp) for stp # 0
ARange(start, stop, stp) ==
    [k \in 1 .. CeilDiv(Abs(stop - start), Abs(stp)) |-> start + (k - 1) * stp]

Take(seq, n) == SubSeq(seq, 1, IF n < Len(seq) THEN n ELSE Len(seq))

InitSegNum == 8

\* the mutation: t_en is not appended
initial_t_range_open(st, en) ==
    Take(ARange(st, en, (en - st) \div InitSegNum), InitSegNum)

\* np.append(np.arange(t_st, t_en, t_step)[:seg_num], t_en)
initial_t_range(st, en) ==
    Append(Take(ARange(st, en, (en - st) \div InitSegNum), InitSegNum), en)

\* dists = [norm(xy_dif) for xy_dif in xy_difs]
Dists(pts) == [k \in 1 .. (Len(pts) - 1) |-> Abs(pts[k + 1] - pts[k])]

\* the mutation: the check passes whatever the distances
tolerance_check_skipped(dists, stp, tol) == TRUE

\* np.all(np.absolute((dists - step) / step) <= tolerance), tolerance in tenths
tolerance_check(dists, stp, tol) ==
    \A k \in DOMAIN dists : Abs(dists[k] - stp) * 10 <= tol * stp

RECURSIVE SumTo(_, _)
SumTo(seq, k) == IF k = 0 THEN 0 ELSE SumTo(seq, k - 1) + seq[k]

\* np.cumsum([0] + dists)
cum_dists(dists) == [k \in 1 .. (Len(dists) + 1) |-> SumTo(dists, k - 1)]

\* interp1d(cum, ts, kind='linear') at the distance num / den, rounded down
\* to the parameter lattice: the segment is the one below the first entry
\* of cum that is not less than the distance
dist_t_interp_func(cum, ts, num, den) ==
    LET hi == SetMin({i \in 2 .. Len(cum) : cum[i] * den >= num})
        lo == hi - 1
    IN  ts[lo] + ((num - cum[lo] * den) * (ts[hi] - ts[lo])) \div (den * (cum[hi] - cum[lo]))

\* seg_num = int(np.ceil(total_dist / step))
next_seg_num(dists, stp) == CeilDiv(SumTo(dists, Len(dists)), stp)

\* np.concatenate(([t_st], dist_t_interp_func(dist_range), [t_en]))
refined_t_range(ts, dists, stp, st, en) ==
    LET cum   == cum_dists(dists)
        total == cum[Len(cum)]
        seg   == next_seg_num(dists, stp)
    IN  <<st>> \o [k \in 1 .. (seg - 1) |-> dist_t_interp_func(cum, ts, k * total, seg)] \o <<en>>

EquiCap == 10

IntervalEnds == {InitSegNum * m : m \in (0 - MaxEighth) .. MaxEighth}

Steps == {4 * MaxEighth * MaxEighth * k : k \in 1 .. MaxStepMult}

InitEqui ==
    /\ SectorAbsent /\ WithinIdle /\ AngradIdle /\ RestIdle
    /\ equi_func \in EquiCurves
    /\ t_st \in IntervalEnds /\ t_en \in IntervalEnds /\ t_st # t_en
    /\ step \in Steps
    /\ tolerance \in 1 .. MaxTolerance
    /\ seg_num = InitSegNum
    /\ t_range = initial_t_range(t_st, t_en)
    /\ points = <<>> /\ pass_i = 0 /\ equi_warned = FALSE
    /\ equi_pc = "for" /\ equi_ret = <<>>

\* one pass of the for loop whose check succeeds: break and return points
EquiPassBreak ==
    /\ equi_pc = "for" /\ pass_i < EquiCap
    /\ LET pts == EvalCurve(equi_func, t_range)
       IN  /\ tolerance_check(Dists(pts), step, tolerance)
           /\ points' = pts
           /\ equi_ret' = pts
    /\ pass_i' = pass_i + 1
    /\ equi_pc' = "done"
    /\ UNCHANGED <<equi_func, t_st, t_en, step, tolerance, seg_num, t_range, equi_warned,
                   sectorVars, withinVars, angradVars, restVars>>

\* one pass of the for loop whose check fails: the parameters are resampled
EquiPassRefine ==
    /\ equi_pc = "for" /\ pass_i < EquiCap
    /\ LET pts == EvalCurve(equi_func, t_range)
       IN  /\ ~tolerance_check(Dists(pts), step, tolerance)
           /\ points' = pts
           /\ seg_num' = next_seg_num(Dists(pts), step)
           /\ t_range' = refined_t_range(t_range, Dists(pts), step, t_st, t_en)
    /\ pass_i' = pass_i + 1
    /\ UNCHANGED <<equi_func, t_st, t_en, step, tolerance, equi_warned, equi_pc, equi_ret,
                   sectorVars, withinVars, angradVars, restVars>>

\* the mutation: after the last pass the refined parameters are evaluated
\* once more and that sampling is returned unchecked
EquiExhaustedResampled ==
    /\ equi_pc = "for" /\ pass_i = EquiCap
    /\ equi_warned' = TRUE
    /\ equi_ret' = EvalCurve(equi_func, t_range)
    /\ equi_pc' = "done"
    /\ UNCHANGED <<equi_func, t_st, t_en, step, tolerance, seg_num, t_range, points, pass_i,
                   sectorVars, withinVars, angradVars, restVars>>

\* the for loop ran out: the else branch prints the warning, points is returned
EquiExhausted ==
    /\ equi_pc = "for" /\ pass_i = EquiCap
    /\ equi_warned' = TRUE
    /\ equi_ret' = points
    /\ equi_pc' = "done"
    /\ UNCHANGED <<equi_func, t_st, t_en, step, tolerance, seg_num, t_range, points, pass_i,
                   sectorVars, withinVars, angradVars, restVars>>

NextEqui == EquiPassBreak \/ EquiPassRefine \/ EquiExhausted

SpecEqui == InitEqui /\ [][NextEqui]_vars

\* ---------------------------------------------------------------- claims: equidistant
\* every pair of consecutive points of pts is at a distance within tol tenths of stp
ConsecutiveWithin(pts, stp, tol) ==
    \A k \in 1 .. (Len(pts) - 1) :
        /\ (10 - tol) * stp <= 10 * Abs(pts[k + 1] - pts[k])
        /\ 10 * Abs(pts[k + 1] - pts[k]) <= (10 + tol) * stp

\* C9 as stated: whatever the curve, interval, step and tolerance, the
\* returned points are pairwise within the tolerance of the step.
C9_ReturnedPointsWithinTolerance ==
    equi_pc = "done" => ConsecutiveWithin(equi_ret, step, tolerance)

\* C9 amended: when the call returns without having printed the
\* iteration-limit warning, the returned points are pairwise within the
\* tolerance of the step.
C9_UnwarnedPointsWithinTolerance ==
    (equi_pc = "done" /\ ~equi_warned) => ConsecutiveWithin(equi_ret, step, tolerance)

\* a call that resampled at least once and then returned without the warning
C9_Witness ==
    /\ equi_pc = "done" /\ ~equi_warned /\ pass_i >= 2
    /\ Len(equi_ret) >= 3

\* C10: in every pass the first parameter is t_st and the last is t_en, so
\* the returned points begin at func(t_st) and end at func(t_en).
C10_EndpointsExact ==
    /\ equi_pc \in {"for", "done"}
          => /\ t_range[1] = t_st
             /\ t_range[Len(t_range)] = t_en
    /\ equi_pc = "done"
          => /\ equi_ret[1] = CurvePos(equi_func, t_st)
             /\ equi_ret[Len(equi_ret)] = CurvePos(equi_func, t_en)

\* a call that returned after resampling moved the interior parameters
C10_Witness ==
    /\ equi_pc = "done" /\ pass_i >= 2
    /\ Len(t_range) >= 3
    /\ t_range # initial_t_range(t_st, t_en)

\* ---------------------------------------------------------------- GearParams, HalfTooth
\* A length L is kept as the integer 8 * L and a coefficient c as 4 * c, so
\* that every product and every halving below is exact.
calc_pitch_diameter(n, m) == n * m * 8

\* self.addendum = self.module * self.ad_coef (also the dedendum, with de_coef)
calc_addendum(m, coef) == m * coef * 2

calc_outside_diameter(pd, ad) == pd + ad * 2

\* the mutation: the dedendum taken once
calc_root_diameter_once(pd, de) == pd - de

calc_root_diameter(pd, de) == pd - de * 2

Radius(diameter) == diameter \div 2

CurvePoint(c, r) == [curve |-> c, rad |-> r]

\* circle(t, r): every sample is at distance r; equidistant returns the
\* samples at both ends of the interval at least
circle_points(c, r) == <<CurvePoint(c, r), CurvePoint(c, r)>>

\* epitrochoid_flat(0, R, l) is at distance R - l; the fillet ends at the
\* junction with the flank
epitrochoid_points(R, l, junction) ==
    <<CurvePoint("epitrochoid", R - l), CurvePoint("epitrochoid", junction)>>

\* the flank runs from the junction to t_outside, the parameter that
\* involute_angrad found for the outside radius
involute_points(junction, r_outside) ==
    <<CurvePoint("involute", junction), CurvePoint("involute", r_outside)>>

DemoModule == 10

DemoCoefQuarters == 4

InitHalfTooth ==
    /\ SectorAbsent /\ WithinIdle /\ AngradIdle /\ EquiIdle /\ LineIdle /\ SeedIdle
    /\ PureIdle /\ ClockIdle /\ CtorIdle /\ ExtIdle
    /\ ht_pc = "GearParams"
    /\ ht_tooth_num \in 1 .. DemoToothNum
    /\ module \in 1 .. MaxModule
    /\ ad_coef \in 1 .. MaxCoefQuarters
    /\ de_coef \in 1 .. MaxCoefQuarters
    /\ ht_tooth_num * 2 > de_coef          \* the root circle has a positive radius
    /\ pitch_diameter = 0 /\ pitch_radius = 0 /\ addendum = 0 /\ dedendum = 0
    /\ outside_diameter = 0 /\ outside_radius = 0 /\ root_diameter = 0 /\ root_radius = 0
    /\ half_tooth_profile = <<>>

\* GearParams.__init__: the _calc_* methods in the order they are called
HtGearParams ==
    /\ ht_pc = "GearParams"
    /\ pitch_diameter' = calc_pitch_diameter(ht_tooth_num, module)
    /\ pitch_radius' = Radius(pitch_diameter')
    /\ addendum' = calc_addendum(module, ad_coef)
    /\ outside_diameter' = calc_outside_diameter(pitch_diameter', addendum')
    /\ outside_radius' = Radius(outside_diameter')
    /\ dedendum' = calc_addendum(module, de_coef)
    /\ root_diameter' = calc_root_diameter(pitch_diameter', dedendum')
    /\ root_radius' = Radius(root_diameter')
    /\ ht_pc' = "build"
    /\ UNCHANGED <<ht_tooth_num, module, ad_coef, de_coef, half_tooth_profile,
                   sectorVars, withinVars, angradVars, equiVars, lineVars, seedVars, pureVars, clockVars, ctorVars, extVars>>

\* equidistant(func, lims, ...): the samples at the two ends of the interval
\* and n samples between them, numbered in the order of the parameter
equi_samples(ends, n) ==
    [k \in 1 .. (n + 2) |->
        [curve |-> ends[1].curve,
         rad |-> IF k = 1 THEN ends[1].rad
                 ELSE IF k = n + 2 THEN ends[2].rad
                 ELSE (ends[1].rad + ends[2].rad) \div 2,
         k |-> k]]

\* HalfTooth._build_half_tooth with the rack cutter; the junction of fillet
\* and flank is found by routines outside this model, so it is either end
\* of the range it can take
HtBuildHalfTooth ==
    /\ ht_pc = "build"
    /\ \E junction \in {root_radius, pitch_radius}, a \in 0 .. MaxInterior, b \in 0 .. MaxInterior :
          /\ points_involute' = equi_samples(involute_points(junction, outside_radius), a)
          /\ points_epitrochoid' =
                 equi_samples(epitrochoid_points(pitch_radius, dedendum, junction), b)
          /\ points_outside' = equi_samples(circle_points("outside", outside_radius), b)
          /\ points_root' = equi_samples(circle_points("root", root_radius), a)
    /\ half_tooth_profile' =
           stack_curves(<<points_root', points_epitrochoid', points_involute', points_outside'>>)
    /\ ht_pc' = "done"
    /\ UNCHANGED <<ht_tooth_num, module, ad_coef, de_coef, pitch_diameter, pitch_radius,
                   addendum, dedendum, outside_diameter, outside_radius, root_diameter,
                   root_radius, sectorVars, withinVars, angradVars, equiVars, lineVars, seedVars,
                   pureVars, clockVars, ctorVars, ucVars, guiVars, rackVars>>

NextHalfTooth == HtGearParams \/ HtBuildHalfTooth

SpecHalfTooth == InitHalfTooth /\ [][NextHalfTooth]_vars

\* ---------------------------------------------------------------- claims: derived radii
DemoGearBuilt ==
    /\ ht_pc = "done"
    /\ ht_tooth_num = DemoToothNum /\ module = DemoModule
    /\ ad_coef = DemoCoefQuarters /\ de_coef = DemoCoefQuarters

ProfileEndsOnCircles ==
    /\ half_tooth_profile[1].rad = root_radius
    /\ half_tooth_profile[Len(half_tooth_profile)].rad = outside_radius

\* C11 as stated: for 18 teeth, module 10 and both coefficients 1 the
\* outside radius is 100, the root radius is 70 and the pitch radius is 90,
\* and the profile runs from the root radius to the outside radius.
C11_DemoRadiiRoot70 ==
    DemoGearBuilt
        => /\ outside_radius = 100 * 8 /\ root_radius = 70 * 8 /\ pitch_radius = 90 * 8
           /\ ProfileEndsOnCircles

\* C11 amended: the same with the root radius 80 (pitch radius less one
\* dedendum of 10).
C11_DemoRadiiRoot80 ==
    DemoGearBuilt
        => /\ outside_radius = 100 * 8 /\ root_radius = 80 * 8 /\ pitch_radius = 90 * 8
           /\ ProfileEndsOnCircles

\* the 18-tooth gear of module 10 has been built
C11_Witness == DemoGearBuilt /\ Len(half_tooth_profile) >= 2

\* ---------------------------------------------------------------- claims: full tooth
\* the angular offset of point p from the ray at -quater_angle, modulo 2*pi
CenterOffset(p) == Remainder(p.ang + QuarterUnits, TwoPi(tooth_num))

\* C12: with both halves from the same half tooth, the k-th point from the
\* start and the k-th point from the end of the full tooth profile have the
\* same radius and opposite angular offsets from the centerline.
C12_FullToothSymmetric ==
    (tooth_num >= 1 /\ ht0 = ht1)
        => \A k \in 1 .. Len(full_tooth_profile) :
              LET p == full_tooth_profile[k]
                  q == full_tooth_profile[Len(full_tooth_profile) + 1 - k]
              IN  /\ p.rad = q.rad
                  /\ Remainder(CenterOffset(p) + CenterOffset(q), TwoPi(tooth_num)) = 0

\* a full tooth of five points whose inner samples are off the centerline
C12_Witness ==
    /\ tooth_num >= 2 /\ ht0 = ht1
    /\ Len(full_tooth_profile) = 2 * Len(ht0) - 1
    /\ Len(ht0) >= 3
    /\ CenterOffset(ht0[2]) # 0

\* ---------------------------------------------------------------- lineline_intersec (geometry.py)
\* The intersection point is the pair of fractions x_num / den, y_num / den.
LineResult(a, b, c, d, e, f, g) ==
    IF g = 0 THEN [status |-> "RuntimeError"]
    ELSE [status |-> "ok", x_num |-> a * b - c * d, y_num |-> a * e - f * d, den |-> g]

\* the mutation: the two coordinates returned in the other order
lineline_intersec_swapped(x1, y1, x2, y2, x3, y3, x4, y4) ==
    LET r == LineResult(x1 * y2 - y1 * x2, x3 - x4, x1 - x2, x3 * y4 - y3 * x4,
                        y3 - y4, y1 - y2, (x1 - x2) * (y3 - y4) - (y1 - y2) * (x3 - x4))
    IN  IF r.status = "ok"
        THEN [status |-> "ok", x_num |-> r.y_num, y_num |-> r.x_num, den |-> r.den]
        ELSE r

lineline_intersec(x1, y1, x2, y2, x3, y3, x4, y4) ==
    LineResult(x1 * y2 - y1 * x2, x3 - x4, x1 - x2, x3 * y4 - y3 * x4,
               y3 - y4, y1 - y2, (x1 - x2) * (y3 - y4) - (y1 - y2) * (x3 - x4))

Coords == 0 .. MaxCoord

InitLine ==
    /\ SectorAbsent /\ WithinIdle /\ AngradIdle /\ EquiIdle /\ HalfToothIdle /\ SeedIdle
    /\ PureIdle /\ ClockIdle /\ CtorIdle /\ ExtIdle
    /\ ll_args \in [1..8 -> Coords]
    /\ ll_caller = "none"
    /\ ll_ret = [status |-> "none"]
    /\ rack_ret = [status |-> "none"]

CallResult ==
    lineline_intersec(ll_args[1], ll_args[2], ll_args[3], ll_args[4],
                      ll_args[5], ll_args[6], ll_args[7], ll_args[8])

\* a call of lineline_intersec by any caller
CallLineLine ==
    /\ ll_caller = "none"
    /\ ll_caller' = "direct"
    /\ ll_ret' = CallResult
    /\ UNCHANGED <<ll_args, rack_ret, sectorVars, withinVars, angradVars, equiVars, htVars, seedVars, pureVars, clockVars, ctorVars, extVars>>

\* the call in Rack.get_data that strips the profile at a boundary: the
\* second segment is (0, y) - (1, y); there is no handler around the call,
\* so what it raises leaves get_data
RackGetData ==
    /\ ll_caller = "none"
    /\ ll_args[5] = 0 /\ ll_args[7] = 1 /\ ll_args[6] = ll_args[8]
    /\ ll_caller' = "Rack.get_data"
    /\ ll_ret' = CallResult
    /\ rack_ret' = IF CallResult.status = "ok"
                   THEN [status |-> "ok", data |-> CallResult]
                   ELSE [status |-> CallResult.status]
    /\ UNCHANGED <<ll_args, sectorVars, withinVars, angradVars, equiVars, htVars, seedVars, pureVars, clockVars, ctorVars, extVars>>

NextLine == CallLineLine \/ RackGetData

SpecLine == InitLine /\ [][NextLine]_vars

\* ---------------------------------------------------------------- claims: lineline_intersec
\* the direction vectors of the two segments are linearly dependent: the
\* segments are parallel or one of them has zero length
Dependent(dax, day, dbx, dby) ==
    \E p \in (0 - MaxCoord) .. MaxCoord, q \in (0 - MaxCoord) .. MaxCoord :
        /\ <<p, q>> # <<0, 0>>
        /\ p * dax = q * dbx
        /\ p * day = q * dby

\* the point x_num/den, y_num/den is on the line through (xa, ya), (xb, yb)
OnLine(r, xa, ya, xb, yb) ==
    (r.x_num - xa * r.den) * (yb - ya) = (r.y_num - ya * r.den) * (xb - xa)

\* C13: lineline_intersec raises RuntimeError exactly when the segments are
\* parallel or one has zero length, and then returns no point; otherwise
\* the returned point is on both lines; raised inside Rack.get_data, the
\* error leaves get_data.
C13_LineLineRaisesIffDegenerate ==
    ll_caller # "none"
        => /\ (ll_ret.status = "RuntimeError")
                 <=> Dependent(ll_args[3] - ll_args[1], ll_args[4] - ll_args[2],
                               ll_args[7] - ll_args[5], ll_args[8] - ll_args[6])
           /\ ll_ret.status = "RuntimeError" => DOMAIN ll_ret = {"status"}
           /\ ll_ret.status # "RuntimeError"
                 => /\ ll_ret.status = "ok"
                    /\ OnLine(ll_ret, ll_args[1], ll_args[2], ll_args[3], ll_args[4])
                    /\ OnLine(ll_ret, ll_args[5], ll_args[6], ll_args[7], ll_args[8])
           /\ (ll_caller = "Rack.get_data" /\ ll_ret.status = "RuntimeError")
                 => rack_ret.status = "RuntimeError"

\* get_data met a profile segment parallel to the boundary line
C13_Witness ==
    /\ ll_caller = "Rack.get_data"
    /\ ll_ret.status = "RuntimeError"
    /\ <<ll_args[1], ll_args[2]>> # <<ll_args[3], ll_args[4]>>

\* ---------------------------------------------------------------- seedrange (helpers.py)
\* np.arange(start, stop, stp) for stp > 0: the values start + k * stp below stop
arange_up(start, stop, stp) ==
    [k \in 1 .. (IF stop <= start THEN 0 ELSE CeilDiv(stop - start, stp)) |->
        start + (k - 1) * stp]

\* arange(st_, en + 0.5 * step, step), computed on doubled values so that
\* the half step is exact
half_step_range(st_, en, stp) ==
    LET doubled == arange_up(2 * st_, 2 * en + stp, 2 * stp)
    IN  [k \in DOMAIN doubled |-> doubled[k] \div 2]

\* if res.size and res[-1] > en: res = res[:-1]
drop_overshoot(res, en) ==
    IF Len(res) > 0 /\ res[Len(res)] > en THEN SubSeq(res, 1, Len(res) - 1) ELSE res

\* the mutation: the value beyond en is kept
seedrange_overshoot(st, en, seed, stp) ==
    half_step_range(Remainder(seed - st, stp) + st, en, stp)

\* the mutation: the sequence starts at st whatever the seed
seedrange_unseeded(st, en, seed, stp) ==
    drop_overshoot(half_step_range(st, en, stp), en)

seedrange(st, en, seed, stp) ==
    drop_overshoot(half_step_range(Remainder(seed - st, stp) + st, en, stp), en)

SeedValues == (0 - MaxSeedRange) .. MaxSeedRange

InitSeed ==
    /\ SectorAbsent /\ WithinIdle /\ AngradIdle /\ EquiIdle /\ HalfToothIdle /\ LineIdle
    /\ PureIdle /\ ClockIdle /\ CtorIdle /\ ExtIdle
    /\ sr_args \in [st : SeedValues, en : SeedValues, seed : SeedValues, step : 1 .. MaxSeedStep]
    /\ sr_args.st <= sr_args.en
    /\ sr_ret = <<>>

CallSeedrange ==
    /\ sr_ret = <<>>
    /\ sr_ret' = <<seedrange(sr_args.st, sr_args.en, sr_args.seed, sr_args.step)>>
    /\ UNCHANGED <<sr_args, sectorVars, withinVars, angradVars, equiVars, htVars, lineVars, pureVars, clockVars, ctorVars, extVars>>

NextSeed == CallSeedrange

SpecSeed == InitSeed /\ [][NextSeed]_vars

\* ---------------------------------------------------------------- claims: seedrange
\* v belongs to the infinite sequence seed + k * step
InSequence(v) == Remainder(v - sr_args.seed, sr_args.step) = 0

\* C14: every value returned lies in [st, en], and st and en are returned
\* when they belong to the sequence.
C14_SeedrangeWithinBounds ==
    sr_ret # <<>>
        => LET res == sr_ret[1]
           IN  /\ \A i \in DOMAIN res : sr_args.st <= res[i] /\ res[i] <= sr_args.en
               /\ InSequence(sr_args.st) => (Len(res) > 0 /\ res[1] = sr_args.st)
               /\ InSequence(sr_args.en) => (Len(res) > 0 /\ res[Len(res)] = sr_args.en)

\* a call whose half-step margin produced a value beyond en, and whose
\* range has both st and en off the sequence
C14_Witness ==
    /\ sr_ret # <<>> /\ Len(sr_ret[1]) >= 2
    /\ ~InSequence(sr_args.st) /\ ~InSequence(sr_args.en)
    /\ sr_ret[1] # seedrange_overshoot(sr_args.st, sr_args.en, sr_args.seed, sr_args.step)

\* C15: the result is, in ascending order, exactly the members of the
\* sequence within [st, en]: neighbours differ by step, none is skipped at
\* either end, and the seed is present when it is within [st, en].
C15_SeedrangeExactMembers ==
    sr_ret # <<>>
        => LET res == sr_ret[1]
           IN  /\ { res[i] : i \in DOMAIN res }
                     = { v \in sr_args.st .. sr_args.en : InSequence(v) }
               /\ \A i \in 1 .. (Len(res) - 1) : res[i + 1] - res[i] = sr_args.step
               /\ Len(res) > 0 => /\ res[1] - sr_args.st < sr_args.step
                                  /\ sr_args.en - res[Len(res)] < sr_args.step
               /\ (sr_args.st <= sr_args.seed /\ sr_args.seed <= sr_args.en)
                     => \E i \in DOMAIN res : res[i] = sr_args.seed

\* a call with the seed strictly inside the range and off both ends' phase
C15_Witness ==
    /\ sr_ret # <<>> /\ Len(sr_ret[1]) >= 3
    /\ sr_args.st < sr_args.seed /\ sr_args.seed < sr_args.en
    /\ ~InSequence(sr_args.st)

\* ---------------------------------------------------------------- repeated calls on one GearSector
\* Clock.inc: self.i = (self.i + 1) % self.step_cnt
clock_inc(c) == [c EXCEPT !.i = Remainder(c.i + 1, c.step_cnt)]

PureRots == 0 .. QuarterUnits

\* a GearSector with the default sector (0, pi), its Clock already created
\* and set to ClockSteps steps by the driver
InitPure ==
    /\ \E n \in 1 .. (MaxTeeth - 1) : GearSectorInit(n)
    /\ WithinIdle /\ AngradIdle /\ EquiIdle /\ HalfToothIdle /\ LineIdle /\ SeedIdle /\ CtorIdle /\ ExtIdle
    /\ self_sector = <<0, 2 * QuarterUnits * tooth_num>>
    /\ first_call = [status |-> "none"]
    /\ clock_instance = 1
    /\ clocks = <<[step_cnt |-> ClockSteps, i |-> 0]>>

\* get_sector_profile; the first call of the run is remembered
PureGetSectorProfile ==
    \E st \in SecAngles(tooth_num), en \in SecAngles(tooth_num), rot \in PureRots :
        /\ SectorCallCore(st, en, rot)
        /\ first_call' = IF first_call.status = "none"
                         THEN [status |-> "made", args |-> <<st, en, rot>>,
                               result |-> sector_profile']
                         ELSE first_call
        /\ UNCHANGED <<self_sector, clockVars, htVars, lineVars, seedVars, ctorVars, extVars>>

\* the driver advances the frame clock between calls
ClockInc ==
    /\ op = "init"
    /\ clocks' = [clocks EXCEPT ![clock_instance] = clock_inc(@)]
    /\ UNCHANGED <<sectorVars, withinVars, angradVars, equiVars, htVars, lineVars, seedVars,
                   pureVars, clock_instance, ctorVars, extVars>>

NextPure == PureGetSectorProfile \/ ClockInc \/ Return

SpecPure == InitPure /\ [][NextPure]_vars

\* ---------------------------------------------------------------- claims: purity of get_sector_profile
\* the step is a call of get_sector_profile
IsSectorCall == op = "init" /\ op' = "get_sector_profile"

Drivers == {1, 2}

DefaultStepCnt == 1

\* Clock.__init__
new_clock == [step_cnt |-> DefaultStepCnt, i |-> 0]

InitCtor ==
    /\ SectorAbsent /\ WithinIdle /\ AngradIdle /\ EquiIdle
    /\ HalfToothIdle /\ LineIdle /\ SeedIdle /\ PureIdle /\ ClockIdle /\ ExtIdle
    /\ ctor_pc = [p \in Drivers |-> "init"]
    /\ \E n \in 1 .. MaxTeeth :
          ctor_ht \in [Drivers -> [n : {n}, profile : HalfToothProfiles(n)]]
    /\ ctor_absent = [p \in Drivers |-> FALSE]
    /\ obj_clock = [p \in Drivers |-> 0]
    /\ obj_profile = [p \in Drivers |-> <<>>]

CtorFrame == UNCHANGED <<sectorVars, withinVars, angradVars, equiVars, htVars, lineVars,
                         seedVars, pureVars, extVars>>

\* Singleton.__call__:  if cls not in Singleton._instances
CtorCheck(p) ==
    /\ ctor_pc[p] = "init"
    /\ ctor_absent' = [ctor_absent EXCEPT ![p] = (clock_instance = 0)]
    /\ ctor_pc' = [ctor_pc EXCEPT ![p] = IF clock_instance = 0 THEN "create" ELSE "return"]
    /\ UNCHANGED <<ctor_ht, obj_clock, obj_profile, clockVars>>
    /\ CtorFrame

\* Singleton._instances[cls] = super().__call__(*args, **kwargs)
CtorCreate(p) ==
    /\ ctor_pc[p] = "create"
    /\ clocks' = Append(clocks, new_clock)
    /\ clock_instance' = Len(clocks) + 1
    /\ ctor_pc' = [ctor_pc EXCEPT ![p] = "return"]
    /\ UNCHANGED <<ctor_ht, ctor_absent, obj_clock, obj_profile>>
    /\ CtorFrame

\* return Singleton._instances[cls], assigned to self.clock
CtorReturn(p) ==
    /\ ctor_pc[p] = "return"
    /\ obj_clock' = [obj_clock EXCEPT ![p] = clock_instance]
    /\ ctor_pc' = [ctor_pc EXCEPT ![p] = "build"]
    /\ UNCHANGED <<ctor_ht, ctor_absent, obj_profile, clockVars>>
    /\ CtorFrame

\* self._build_full_tooth()
CtorBuild(p) ==
    /\ ctor_pc[p] = "build"
    /\ obj_profile' = [obj_profile EXCEPT ![p] =
                          build_full_tooth(ctor_ht[p].profile, ctor_ht[p].profile, ctor_ht[p].n)]
    /\ ctor_pc' = [ctor_pc EXCEPT ![p] = "done"]
    /\ UNCHANGED <<ctor_ht, ctor_absent, obj_clock, clockVars>>
    /\ CtorFrame

NextCtor == \E p \in Drivers : CtorCheck(p) \/ CtorCreate(p) \/ CtorReturn(p) \/ CtorBuild(p)

SpecCtor == InitCtor /\ [][NextCtor]_vars

\* ---------------------------------------------------------------- claims: concurrent construction
AllBuilt == \A p \in Drivers : ctor_pc[p] = "done"

\* C17: however the two constructions interleave, each object has the
\* profile a construction on its own gives, and both objects hold one and
\* the same Clock.
C17_InterleavedConstructionSharesClock ==
    AllBuilt
        => /\ \A p \in Drivers :
                 obj_profile[p] = build_full_tooth(ctor_ht[p].profile, ctor_ht[p].profile,
                                                   ctor_ht[p].n)
           /\ \A p \in Drivers, q \in Drivers : obj_clock[p] = obj_clock[q]
           /\ Len(clocks) = 1

\* ---------------------------------------------------------------- claims: _sortout_teeth
\* the teeth whose span [tooth_start, tooth_end) contains the angle q
TeethContaining(q) ==
    { k \in Teeth(tooth_num) :
        seg_within_tooth_bm(full_tooth_profile, q, rot_ang, tooth_num)[k] }

\* C18: for sector edges in [0, 2*pi), any rotation and any tooth count,
\* exactly one tooth contains the sector start and exactly one contains the
\* sector end; the lookups of _sortout_teeth succeed and return those teeth.
C18_EdgeToothUnique ==
    (Called /\ sec_st < TwoPi(tooth_num) /\ sec_en < TwoPi(tooth_num))
        => /\ Cardinality(TeethContaining(sec_st)) = 1
           /\ Cardinality(TeethContaining(sec_en)) = 1
           /\ sector_profile.status # "IndexError"
           /\ TeethContaining(sec_st) = {st_tooth_idx}
           /\ TeethContaining(sec_en) = {en_tooth_idx}

\* the sector starts in the tooth that spans the angle 0 and ends in another
C18_Witness ==
    /\ Called /\ tooth_num >= 2
    /\ sec_st < TwoPi(tooth_num) /\ sec_en < TwoPi(tooth_num)
    /\ teeth_sts(full_tooth_profile, rot_ang, tooth_num)[st_tooth_idx]
          > teeth_ens(full_tooth_profile, rot_ang, tooth_num)[st_tooth_idx]
    /\ en_tooth_idx # st_tooth_idx

\* C19: with at least one full tooth the rotation loop ends, and the list
\* of full teeth is st + 1, st + 2, ... modulo tooth_num, the last one
\* right before the end tooth.
C19_FullTeethContiguous ==
    (Called /\ Len(full_teeth_ins) >= 1)
        => /\ sector_profile.status # "hang"
           /\ \A j \in 1 .. Len(full_teeth_ins) :
                 full_teeth_ins[j] = Remainder(st_tooth_idx + j, tooth_num)
           /\ Remainder(full_teeth_ins[Len(full_teeth_ins)] + 1, tooth_num) = en_tooth_idx

\* the loop rolled the list: the full teeth run across the seam from the
\* last tooth to tooth 0, and the end tooth starts exactly at sec_en
C19_Witness ==
    /\ Called /\ Len(full_teeth_ins) >= 2
    /\ full_teeth_ins[1] > full_teeth_ins[Len(full_teeth_ins)]
    /\ teeth_sts(full_tooth_profile, rot_ang, tooth_num)[en_tooth_idx] = sec_en

\* ---------------------------------------------------------------- floating-point parameters
\* For the depth of the bisection the parameter t is a binary floating-point
\* number m * 2^e with a significand of MantissaBits bits (2^(MantissaBits-1)
\* <= |m| < 2^MantissaBits, or m = 0), rounded to nearest, ties to even.
\* The exponent is not limited: 100 halvings of a parameter of the model
\* stay far above the smallest binary64 number.  Radii are compared exactly.
FZero == [m |-> 0, e |-> 0]

RECURSIVE BitLen(_)
BitLen(n) == IF n = 0 THEN 0 ELSE 1 + BitLen(n \div 2)

\* the exact value M * 2^E rounded to the format
FRound(M, E) ==
    IF M = 0 THEN FZero
    ELSE LET a == Abs(M)
             sgn == IF M < 0 THEN -1 ELSE 1
             k == BitLen(a) - MantissaBits
         IN  IF k <= 0 THEN [m |-> M * 2^(0 - k), e |-> E + k]
             ELSE LET q == a \div 2^k
                      r == a % 2^k
                      half == 2^(k - 1)
                      qa == IF r > half \/ (r = half /\ q % 2 = 1) THEN q + 1 ELSE q
                  IN  IF qa = 2^MantissaBits
                      THEN [m |-> sgn * 2^(MantissaBits - 1), e |-> E + k + 1]
                      ELSE [m |-> sgn * qa, e |-> E + k]

FNeg(a) == [m |-> 0 - a.m, e |-> a.e]

\* a + b: an operand below a quarter of the other's last place is absorbed
FAdd(a, b) ==
    IF a.m = 0 THEN b
    ELSE IF b.m = 0 THEN a
    ELSE IF a.e - b.e > MantissaBits + 2 THEN a
    ELSE IF b.e - a.e > MantissaBits + 2 THEN b
    ELSE LET E == IF a.e < b.e THEN a.e ELSE b.e
         IN  FRound(a.m * 2^(a.e - E) + b.m * 2^(b.e - E), E)

FSub(a, b) == FAdd(a, FNeg(b))

\* multiplication and division by 2 are exact
FTwice(a) == IF a.m = 0 THEN a ELSE [m |-> a.m, e |-> a.e + 1]

FHalf(a) == IF a.m = 0 THEN a ELSE [m |-> a.m, e |-> a.e - 1]

Sign(n) == IF n < 0 THEN -1 ELSE IF n = 0 THEN 0 ELSE 1

\* the sign of a - b
FCmp(a, b) == Sign(FSub(a, b).m)

FromInt(n) == FRound(n, 0)

\* the mutation: the sum is not halved
FMeanUnhalved(a, b) == FAdd(a, b)

\* np.mean([t_min, t_max])
FMean(a, b) == FHalf(FAdd(a, b))

\* the sign of  |f(t)|^2 - target_sq,  |f(t)|^2 = base + coef * t^2, decided
\* without forming powers of two beyond the integer range
NormCmp(f, t, target_sq) ==
    LET base == NormSq(f, 0)
        coef == NormSq(f, 1) - NormSq(f, 0)
        D == target_sq - base
    IN  IF D < 0 THEN 1
        ELSE IF t.m = 0 THEN (IF D = 0 THEN 0 ELSE -1)
        ELSE IF D = 0 THEN 1
        ELSE IF t.e >= 0
             THEN (IF t.e > 8 THEN 1 ELSE Sign(coef * t.m * t.m * 4^(t.e) - D))
        ELSE IF 0 - t.e > 12 THEN -1
        ELSE Sign(coef * t.m * t.m - D * 4^(0 - t.e))

\* the mutation: the ends of the bracket count as inside
FStrictlyBetweenClosed(t, lo, hi, inv) ==
    IF inv THEN FCmp(lo, t) >= 0 /\ FCmp(t, hi) >= 0
    ELSE FCmp(lo, t) <= 0 /\ FCmp(t, hi) <= 0

\* (t_min > t_curr > t_max) if is_t_inv else (t_min < t_curr < t_max)
FStrictlyBetween(t, lo, hi, inv) ==
    IF inv THEN FCmp(lo, t) > 0 /\ FCmp(t, hi) > 0
    ELSE FCmp(lo, t) < 0 /\ FCmp(t, hi) < 0

InitAngradFloat ==
    /\ SectorAbsent /\ WithinIdle /\ EquiIdle /\ RestIdle
    /\ func \in Curves
    /\ rad_sq \in 0..MaxRadSq
    /\ \E a \in Brackets, b \in Brackets :
          /\ t_min = FromInt(a) /\ t_max = FromInt(b)
          /\ is_t_inv = (b < a)
    /\ t_lims0 = <<t_min, t_max>>
    /\ t_curr = FZero /\ xy = [t |-> FZero]
    /\ iter = 0 /\ warned = FALSE
    /\ pc = "while"
    /\ angrad_ret = [status |-> "none"]

\* while np.linalg.norm(func(t_max)) < rad
FloatWhile ==
    /\ pc = "while"
    /\ pc' = IF NormCmp(func, t_max, rad_sq) < 0 THEN "expand" ELSE "for"
    /\ UNCHANGED <<func, rad_sq, t_min, t_max, is_t_inv, t_curr, xy, iter, warned,
                   t_lims0, angrad_ret, sectorVars, withinVars, equiVars, restVars>>

\* t_min, t_max = t_max, t_max + (t_max - t_min) * 2
FloatExpand ==
    /\ pc = "expand"
    /\ t_min' = t_max
    /\ t_max' = FAdd(t_max, FTwice(FSub(t_max, t_min)))
    /\ pc' = "while"
    /\ UNCHANGED <<func, rad_sq, is_t_inv, t_curr, xy, iter, warned,
                   t_lims0, angrad_ret, sectorVars, withinVars, equiVars, restVars>>

\* one pass of  for _ in range(100), or its else clause; iter counts the
\* passes started
FloatFor ==
    /\ pc = "for"
    /\ IF iter >= BisectCap
       THEN /\ warned' = TRUE
            /\ pc' = "done"
            /\ angrad_ret' = Returned(xy, t_curr)
            /\ UNCHANGED <<t_min, t_max, t_curr, xy, iter>>
       ELSE LET mid == FMean(t_min, t_max)
            IN  /\ t_curr' = mid
                /\ xy' = [t |-> mid]
                /\ iter' = iter + 1
                /\ IF NormCmp(func, mid, rad_sq) = 0
                      \/ ~FStrictlyBetween(mid, t_min, t_max, is_t_inv)
                   THEN /\ pc' = "done"
                        /\ angrad_ret' = Returned([t |-> mid], mid)
                        /\ UNCHANGED <<t_min, t_max, warned>>
                   ELSE /\ t_min' = IF NormCmp(func, mid, rad_sq) < 0 THEN mid ELSE t_min
                        /\ t_max' = IF NormCmp(func, mid, rad_sq) < 0 THEN t_max ELSE mid
                        /\ UNCHANGED <<pc, angrad_ret, warned>>
    /\ UNCHANGED <<func, rad_sq, is_t_inv, t_lims0, sectorVars, withinVars, equiVars, restVars>>

NextAngradFloat == FloatWhile \/ FloatExpand \/ FloatFor

SpecAngradFloat == InitAngradFloat /\ [][NextAngradFloat]_vars

\* ---------------------------------------------------------------- C20
\* the midpoint t is at the target radius, or is not strictly between the
\* ends lo and hi of the bracket in the direction of the search
C20_StopsAt(t, lo, hi) ==
    \/ NormCmp(func, t, rad_sq) = 0
    \/ IF is_t_inv THEN ~(FCmp(lo, t) > 0 /\ FCmp(t, hi) > 0)
       ELSE ~(FCmp(lo, t) < 0 /\ FCmp(t, hi) < 0)

\* C20: the bisection loop of angrad_func evaluates at most 100 midpoints; a
\* pass ends the loop exactly when its midpoint is at the target radius or is
\* not strictly between the two ends of the bracket; the warning is printed
\* if and only if all 100 passes ran without ending the loop; in every case
\* the function returns, and what it returns is the last midpoint.
C20_BisectionStopsWithinCap ==
    /\ [](iter <= BisectCap)
    /\ [](pc = "done" => angrad_ret.status = "ok" /\ angrad_ret.t = t_curr)
    /\ [](warned => pc = "done" /\ iter = BisectCap)
    /\ [][pc = "for" =>
            IF iter < BisectCap
            THEN /\ iter' = iter + 1
                 /\ ~warned'
                 /\ (pc' = "done") = C20_StopsAt(t_curr', t_min, t_max)
                 /\ pc' \in {"done", "for"}
            ELSE /\ pc' = "done"
                 /\ warned'
                 /\ t_curr' = t_curr /\ iter' = iter]_vars

\* the loop ran all 100 passes, warned and returned a midpoint other than 0
C20_Witness == pc = "done" /\ warned /\ iter = BisectCap /\ t_curr.m # 0

\* ---------------------------------------------------------------- HalfTooth._calc_profile_params, lines 100-106
\* The junction radius and angle come from _calc_invol_epitr_flat or
\* _calc_invol_epitr and the radii from GearParams; here they are inputs.
\* Radii are floating-point numbers, the angle is a multiple of pi / AngleSteps.
UndercutCap == 100

Mantissas == 2^(MantissaBits - 1) .. (2^MantissaBits - 1)

BaseRadii == {FRound(m, 0 - s) : m \in Mantissas, s \in {0, RadiusSpread}}

JunctionRadii == {FRound(2^(MantissaBits - 1), 0), FRound(2^MantissaBits - 1, 0)}

OutsideRadii == {FRound(m, e) : m \in Mantissas, e \in {0, 1}}

\* the mutation: an angle of exactly pi / 2 counts as undercut
undercut_test_inclusive(angle) == angle * 2 <= AngleSteps

\* invol_epitr_angle * 2 < np.pi
undercut_test(angle) == angle * 2 < AngleSteps

InitUndercut ==
    /\ SectorAbsent /\ WithinIdle /\ AngradIdle /\ EquiIdle
    /\ HalfToothIdle /\ LineIdle /\ SeedIdle /\ PureIdle /\ ClockIdle /\ CtorIdle
    /\ SegIdle /\ GuiIdle /\ RackIdle
    /\ uc_pc = "classify"
    /\ invol_epitr_rad \in JunctionRadii
    /\ invol_epitr_angle \in 0 .. AngleSteps
    /\ base_radius \in BaseRadii
    /\ uc_outside_radius \in OutsideRadii
    /\ FCmp(base_radius, uc_outside_radius) <= 0
    /\ is_tooth_undercut = FALSE
    /\ r_min = FZero /\ r_max = FZero /\ r_curr = FZero
    /\ uc_iter = 0 /\ uc_warned = FALSE
    /\ uc_calls = <<>> /\ uc_evals = <<>> /\ min_r_cont = <<>>

UndercutFrame ==
    UNCHANGED <<sectorVars, withinVars, angradVars, equiVars, htVars, lineVars, seedVars,
                pureVars, clockVars, ctorVars, segVars, guiVars, rackVars>>

\* lines 101-105: the flag and the call it selects; lines 183-184
UcClassify ==
    /\ uc_pc = "classify"
    /\ is_tooth_undercut' = undercut_test(invol_epitr_angle)
    /\ IF is_tooth_undercut'
       THEN /\ uc_calls' = Append(uc_calls, "_find_involute_epitrochoid_intersection")
            /\ r_min' = base_radius
            /\ r_max' = uc_outside_radius
            /\ uc_pc' = "bisect"
       ELSE /\ uc_calls' = Append(uc_calls, "_find_involute_epitrochoid_contact_t_vals")
            /\ UNCHANGED <<r_min, r_max>>
            /\ uc_pc' = "contact"
    /\ UNCHANGED <<invol_epitr_rad, invol_epitr_angle, base_radius, uc_outside_radius,
                   r_curr, uc_iter, uc_warned, uc_evals, min_r_cont>>
    /\ UndercutFrame

\* _find_involute_epitrochoid_contact_t_vals(invol_epitr_rad), then line 106
UcContact ==
    /\ uc_pc = "contact"
    /\ uc_evals' = <<invol_epitr_rad, invol_epitr_rad>>
    /\ min_r_cont' = <<invol_epitr_rad>>
    /\ uc_pc' = "done"
    /\ UNCHANGED <<invol_epitr_rad, invol_epitr_angle, is_tooth_undercut, base_radius,
                   uc_outside_radius, r_min, r_max, r_curr, uc_iter, uc_warned, uc_calls>>
    /\ UndercutFrame

\* one pass of the for loop of _find_involute_epitrochoid_intersection, or
\* its else clause, then the return and the assignment of line 103.  The two
\* angles depend on curve parameters that are not modelled: cmp is the sign
\* of involute_ang - epitrochoid_ang, any of the three.
UcBisect ==
    /\ uc_pc = "bisect"
    /\ IF uc_iter >= UndercutCap
       THEN /\ uc_warned' = TRUE
            /\ min_r_cont' = <<r_curr>>
            /\ uc_pc' = "done"
            /\ UNCHANGED <<r_min, r_max, r_curr, uc_iter, uc_evals>>
       ELSE LET mid == FMean(r_min, r_max)
            IN  /\ r_curr' = mid
                /\ uc_evals' = <<mid, mid>>
                /\ uc_iter' = uc_iter + 1
                /\ UNCHANGED uc_warned
                /\ \E cmp \in {-1, 0, 1} :
                      IF cmp = 0 \/ ~(FCmp(r_min, mid) < 0 /\ FCmp(mid, r_max) < 0)
                      THEN /\ min_r_cont' = <<mid>>
                           /\ uc_pc' = "done"
                           /\ UNCHANGED <<r_min, r_max>>
                      ELSE /\ r_min' = IF cmp < 0 THEN mid ELSE r_min
                           /\ r_max' = IF cmp < 0 THEN r_max ELSE mid
                           /\ UNCHANGED <<min_r_cont, uc_pc>>
    /\ UNCHANGED <<invol_epitr_rad, invol_epitr_angle, is_tooth_undercut, base_radius,
                   uc_outside_radius, uc_calls>>
    /\ UndercutFrame

NextUndercut == UcClassify \/ UcContact \/ UcBisect

SpecUndercut == InitUndercut /\ [][NextUndercut]_vars

\* ---------------------------------------------------------------- C21
\* C21: the bisection (_find_involute_epitrochoid_intersection) is the path
\* taken if and only if twice the junction angle is below pi; otherwise both
\* inverses are evaluated once, at the junction radius, and min_r_cont is
\* that radius; exactly one of the two methods is called.
C21_PathChosenByUndercutFlag ==
    /\ uc_pc \in {"bisect", "contact", "done"}
          => /\ is_tooth_undercut = (invol_epitr_angle * 2 < AngleSteps)
             /\ Len(uc_calls) = 1
             /\ (uc_calls[1] = "_find_involute_epitrochoid_intersection") = is_tooth_undercut
             /\ (uc_calls[1] = "_find_involute_epitrochoid_contact_t_vals") = ~is_tooth_undercut
             /\ (uc_pc = "bisect") => is_tooth_undercut
             /\ (uc_pc = "contact") => ~is_tooth_undercut
    /\ (uc_pc = "done" /\ ~is_tooth_undercut)
          => /\ uc_iter = 0
             /\ uc_evals = <<invol_epitr_rad, invol_epitr_rad>>
             /\ min_r_cont = <<invol_epitr_rad>>
    /\ (uc_pc = "done" /\ is_tooth_undercut)
          => /\ uc_iter >= 1
             /\ min_r_cont = <<r_curr>>

\* a construction whose junction angle is exactly pi / 2 took the direct path
C21_Witness ==
    /\ uc_pc = "done" /\ invol_epitr_angle * 2 = AngleSteps
    /\ min_r_cont = <<invol_epitr_rad>>

\* ---------------------------------------------------------------- C22
FLeq(a, b) == FCmp(a, b) <= 0

\* C22: in the undercut bisection base_radius <= r_min <= r_curr <= r_max <=
\* outside_radius in every pass, the bracket never widens, at most 100 passes
\* run, the warning is printed only after 100 passes, and the returned
\* min_r_cont is between base_radius and outside_radius.
C22_UndercutBracketInvariant ==
    /\ [](is_tooth_undercut /\ uc_pc \in {"bisect", "done"}
            => /\ FLeq(base_radius, r_min) /\ FLeq(r_min, r_max)
               /\ FLeq(r_max, uc_outside_radius)
               /\ uc_iter >= 1 => (FLeq(r_min, r_curr) /\ FLeq(r_curr, r_max))
               /\ uc_iter <= UndercutCap)
    /\ [](uc_warned => uc_iter = UndercutCap)
    /\ []((is_tooth_undercut /\ uc_pc = "done")
            => /\ FLeq(base_radius, min_r_cont[1])
               /\ FLeq(min_r_cont[1], uc_outside_radius))
    /\ [][uc_pc = "bisect" => (FLeq(r_min, r_min') /\ FLeq(r_max', r_max))]_vars

\* the bisection narrowed the bracket from both ends and returned
C22_Witness ==
    /\ is_tooth_undercut /\ uc_pc = "done" /\ uc_iter >= 3
    /\ r_min # base_radius /\ r_max # uc_outside_radius

C24_HalfToothIsStackOfFour ==
    ht_pc = "done"
        => /\ half_tooth_profile = points_root \o Tail(points_epitrochoid)
                                     \o Tail(points_involute) \o Tail(points_outside)
           /\ Len(half_tooth_profile) = Len(points_root) + Len(points_epitrochoid)
                                        + Len(points_involute) + Len(points_outside) - 3

\* a half tooth built from curves of different lengths
C24_Witness ==
    /\ ht_pc = "done"
    /\ Len(points_root) # Len(points_epitrochoid)
    /\ Len(half_tooth_profile) >= 7

\* ---------------------------------------------------------------- rotation by one tooth angle
\* A first call of get_sector_profile, then calls with the same sector and
\* the rotation advanced by one tooth angle: what GearSector.get_data would
\* ask for one frame after the last frame of a cycle.
PeriodFirst ==
    /\ first_call.status = "none"
    /\ \E st \in SecAngles(tooth_num), en \in SecAngles(tooth_num), rot \in RotAngles(tooth_num) :
          /\ SectorCallCore(st, en, rot)
          /\ first_call' = [status |-> "made", args |-> <<st, en, rot>>,
                            result |-> sector_profile']
    /\ UNCHANGED <<self_sector, htVars, lineVars, seedVars, clockVars, ctorVars, extVars>>

PeriodShifted ==
    /\ first_call.status = "made"
    /\ SectorCallCore(first_call.args[1], first_call.args[2], first_call.args[3] + ToothAngle)
    /\ UNCHANGED restVars

NextPeriod == PeriodFirst \/ PeriodShifted \/ Return

SpecPeriod == Init /\ [][NextPeriod]_vars

\* the call in progress repeats the first call one tooth angle further
ShiftedCall ==
    /\ Called /\ first_call.status = "made"
    /\ sec_st = first_call.args[1] /\ sec_en = first_call.args[2]
    /\ rot_ang = first_call.args[3] + ToothAngle

\* C25: get_sector_profile(sec_st, sec_en, r + tooth_angle) returns the
\* point sequence (or raises the error) that get_sector_profile(sec_st,
\* sec_en, r) returned.
C25_ToothAnglePeriodic == ShiftedCall => sector_profile = first_call.result

\* a sector of a start tooth, full teeth and an end tooth, extracted again
\* one tooth angle further
C25_Witness ==
    /\ ShiftedCall
    /\ sector_profile.status = "ok"
    /\ Len(full_teeth_ins) >= 1
    /\ st_tooth_idx # en_tooth_idx
    /\ tooth_num >= 3

\* ---------------------------------------------------------------- Clock (helpers.py)
\* The one Clock object, as Clock() leaves it, and its four methods called
\* in any order.
InitClock ==
    /\ SectorAbsent /\ WithinIdle /\ AngradIdle /\ EquiIdle
    /\ HalfToothIdle /\ LineIdle /\ SeedIdle /\ PureIdle /\ CtorIdle /\ ExtIdle
    /\ clock_instance = 1
    /\ clocks = <<new_clock>>

ClockFrame ==
    UNCHANGED <<sectorVars, withinVars, angradVars, equiVars, htVars, lineVars, seedVars,
                pureVars, clock_instance, ctorVars, extVars>>

\* self.step_cnt = step_cnt
clock_set_step_cnt(c, n) == [c EXCEPT !.step_cnt = n]

\* self.i = self.step_cnt - 1
clock_reset(c) == [c EXCEPT !.i = c.step_cnt - 1]

\* self.i = (self.i + self.step_cnt - 1) % self.step_cnt
clock_dec(c) == [c EXCEPT !.i = Remainder(c.i + c.step_cnt - 1, c.step_cnt)]

ClockSetStepCnt ==
    /\ \E n \in 1 .. MaxStepCnt :
          clocks' = [clocks EXCEPT ![clock_instance] = clock_set_step_cnt(@, n)]
    /\ ClockFrame

ClockReset ==
    /\ clocks' = [clocks EXCEPT ![clock_instance] = clock_reset(@)]
    /\ ClockFrame

ClockIncOnly ==
    /\ clocks' = [clocks EXCEPT ![clock_instance] = clock_inc(@)]
    /\ ClockFrame

ClockDec ==
    /\ clocks' = [clocks EXCEPT ![clock_instance] = clock_dec(@)]
    /\ ClockFrame

NextClock == ClockSetStepCnt \/ ClockReset \/ ClockIncOnly \/ ClockDec

SpecClock == InitClock /\ [][NextClock]_vars

\* ---------------------------------------------------------------- C26
\* C26: after any sequence of set_step_cnt(n) with n >= 1, inc, dec and
\* reset, 0 <= i < step_cnt, so that progress = i / step_cnt is in [0, 1).
C26_ClockIndexInRange ==
    LET c == clocks[clock_instance]
    IN  0 <= c.i /\ c.i < c.step_cnt

\* ---------------------------------------------------------------- the player (gui.py)
GuiStepCnt == 100

TimerIds == 1 .. MaxPending

\* self.after(delay_ms, callback): Tk hands out a name no pending call has
after(ts) == CHOOSE id \in TimerIds : id \notin ts /\ \A j \in TimerIds : j < id => j \in ts

\* break_loop without after_cancel
break_loop_uncancelled(ts, aid) == [timers |-> ts, after_id |-> 0]

\* if self.after_id is not None: self.after_cancel(self.after_id); self.after_id = None
break_loop(ts, aid) == [timers |-> IF aid # 0 THEN ts \ {aid} ELSE ts, after_id |-> 0]

\* the frame index next_frame shows, kept if it is the first since play
first_shown(rf, c) == IF rf = <<>> THEN <<c.i>> ELSE rf

\* GearsApp as __init__ leaves it: the toolbar in reset_state, the default
\* inputs valid, the Clock created by the toolbar and given 100 steps
InitGui ==
    /\ SectorAbsent /\ WithinIdle /\ AngradIdle /\ EquiIdle
    /\ HalfToothIdle /\ LineIdle /\ SeedIdle /\ PureIdle /\ CtorIdle
    /\ UndercutIdle /\ SegIdle /\ RackIdle
    /\ clock_instance = 1
    /\ clocks = <<clock_set_step_cnt(new_clock, GuiStepCnt)>>
    /\ gui_state = "RESET" /\ play_cmd = "play"
    /\ play_btn_on = TRUE /\ next_btn_on = FALSE /\ stop_btn_on = FALSE
    /\ after_id = 0 /\ timers = {} /\ active_mode = FALSE
    /\ run_first = <<>> /\ gui_last = "init"

GuiFrame ==
    UNCHANGED <<sectorVars, withinVars, angradVars, equiVars, htVars, lineVars, seedVars,
                pureVars, clock_instance, ctorVars, ucVars, segVars, rackVars>>

\* play_btn pressed while bound to callback_play: GearsApp.play
GuiPlay ==
    /\ gui_state # "none" /\ play_btn_on /\ play_cmd = "play"
    /\ LET bl == break_loop(timers, after_id)
           c  == clock_inc(clocks[clock_instance])
       IN  /\ Cardinality(bl.timers) < MaxPending
           /\ stop_btn_on' = TRUE /\ play_cmd' = "pause" /\ gui_state' = "PLAY"
           /\ active_mode' = TRUE
           /\ clocks' = [clocks EXCEPT ![clock_instance] = c]
           /\ run_first' = first_shown(<<>>, c)
           /\ after_id' = after(bl.timers)
           /\ timers' = bl.timers \cup {after(bl.timers)}
    /\ gui_last' = "play"
    /\ UNCHANGED <<play_btn_on, next_btn_on>>
    /\ GuiFrame

\* play_btn pressed while bound to callback_pause: GearsApp.pause
GuiPause ==
    /\ gui_state # "none" /\ play_btn_on /\ play_cmd = "pause"
    /\ LET bl == break_loop(timers, after_id)
       IN  timers' = bl.timers /\ after_id' = bl.after_id
    /\ play_cmd' = "resume" /\ next_btn_on' = TRUE /\ gui_state' = "PAUSE"
    /\ gui_last' = "pause"
    /\ UNCHANGED <<play_btn_on, stop_btn_on, active_mode, run_first, clocks>>
    /\ GuiFrame

\* play_btn pressed while bound to callback_resume: GearsApp.resume
GuiResume ==
    /\ gui_state # "none" /\ play_btn_on /\ play_cmd = "resume"
    /\ Cardinality(timers) < MaxPending
    /\ next_btn_on' = FALSE /\ play_cmd' = "pause" /\ gui_state' = "RESUME"
    /\ LET c == clock_inc(clocks[clock_instance])
       IN  /\ clocks' = [clocks EXCEPT ![clock_instance] = c]
           /\ run_first' = first_shown(run_first, c)
    /\ after_id' = after(timers)
    /\ timers' = timers \cup {after(timers)}
    /\ gui_last' = "resume"
    /\ UNCHANGED <<play_btn_on, stop_btn_on, active_mode>>
    /\ GuiFrame

\* next_btn pressed: GearsApp.next_frame
GuiNextFrame ==
    /\ gui_state # "none" /\ next_btn_on
    /\ LET c == clock_inc(clocks[clock_instance])
       IN  /\ clocks' = [clocks EXCEPT ![clock_instance] = c]
           /\ run_first' = first_shown(run_first, c)
    /\ gui_last' = "next_frame"
    /\ UNCHANGED <<gui_state, play_cmd, play_btn_on, next_btn_on, stop_btn_on, after_id,
                   timers, active_mode>>
    /\ GuiFrame

\* stop_btn pressed: GearsApp.stop, which ends with inputs.input_callback()
GuiStop ==
    /\ gui_state # "none" /\ stop_btn_on
    /\ LET bl == break_loop(timers, after_id)
       IN  timers' = bl.timers /\ after_id' = bl.after_id
    /\ active_mode' = FALSE
    /\ clocks' = [clocks EXCEPT ![clock_instance] = clock_reset(@)]
    /\ play_cmd' = "play" /\ stop_btn_on' = FALSE /\ next_btn_on' = FALSE
    /\ gui_state' = "RESET"
    /\ \E valid \in BOOLEAN : play_btn_on' = valid
    /\ gui_last' = "stop"
    /\ UNCHANGED run_first
    /\ GuiFrame

\* Tk runs a pending after() callback: GearsApp.auto_update_frames
GuiTimer ==
    /\ gui_state # "none"
    /\ \E id \in timers :
          LET ts == timers \ {id}
              c  == clock_inc(clocks[clock_instance])
          IN  /\ clocks' = [clocks EXCEPT ![clock_instance] = c]
              /\ run_first' = first_shown(run_first, c)
              /\ after_id' = after(ts)
              /\ timers' = ts \cup {after(ts)}
    /\ gui_last' = "auto_update_frames"
    /\ UNCHANGED <<gui_state, play_cmd, play_btn_on, next_btn_on, stop_btn_on, active_mode>>
    /\ GuiFrame

\* an input field edited: entry_callback, input_callback, then activate or
\* deactivate, which act in RESET only
GuiInput ==
    /\ gui_state # "none"
    /\ \E valid \in BOOLEAN :
          play_btn_on' = IF gui_state = "RESET" THEN valid ELSE play_btn_on
    /\ gui_last' = "input_callback"
    /\ UNCHANGED <<gui_state, play_cmd, next_btn_on, stop_btn_on, after_id, timers,
                   active_mode, run_first, clocks>>
    /\ GuiFrame

NextGui == GuiPlay \/ GuiPause \/ GuiResume \/ GuiNextFrame \/ GuiStop \/ GuiTimer \/ GuiInput

SpecGui == InitGui /\ [][NextGui]_vars

\* ---------------------------------------------------------------- C27
\* C27: the first frame shown after play is pressed in RESET, at
\* application start or after stop, has index 0.
C27_FirstFrameIsZero == run_first # <<>> => run_first[1] = 0

\* ---------------------------------------------------------------- C28
\* C28: whatever buttons are pressed, as far as their bindings and enabled
\* states allow, at most one auto_update_frames callback is pending, and
\* none in PAUSE and RESET.
C28_AtMostOnePendingTimer ==
    /\ Cardinality(timers) <= 1
    /\ gui_state \in {"PAUSE", "RESET"} => timers = {}

\* a resumed run whose timer has fired: one callback pending
C28_Witness ==
    /\ gui_state = "RESUME" /\ gui_last = "auto_update_frames"
    /\ Cardinality(timers) = 1

\* ---------------------------------------------------------------- C29
\* C29: with start = end, is_within_ang is true for every q, the interval
\* being the whole circle: a sector with equal edges selects every tooth
\* start (so every tooth but the one holding the edge is a full tooth), and
\* the single tooth of a one-tooth gear contains every angle.
C29_ZeroWidthIsWholeCircle ==
    op = "get_sector_profile" =>
        /\ sec_st = sec_en =>
              /\ \A q \in SecAngles(tooth_num) : is_within_ang(q, sec_st, sec_en)
              /\ \A k \in Teeth(tooth_num) :
                    teeth_sts_in_sector_bm(full_tooth_profile, sec_st, sec_en, rot_ang,
                                           tooth_num)[k]
              /\ st_tooth_idx = en_tooth_idx
              /\ Len(full_teeth_ins) = tooth_num - 1
        /\ tooth_num = 1 =>
              /\ \A q \in SecAngles(tooth_num) :
                    seg_within_tooth_bm(full_tooth_profile, q, rot_ang, tooth_num)[0]
              /\ st_tooth_idx = 0 /\ en_tooth_idx = 0

\* a sector with equal edges on a gear of several teeth: all teeth but one
\* are full teeth
C29_Witness ==
    /\ op = "get_sector_profile" /\ sec_st = sec_en
    /\ tooth_num >= 2 /\ Len(full_teeth_ins) = tooth_num - 1

\* ---------------------------------------------------------------- Rack.get_data (tooth_profile.py)
\* Lengths are integers in a unit that divides circular_pitch / (2 * step_cnt),
\* so that half a pitch and progress * circular_pitch are exact. An entry of
\* a float array is a number or NaN.
NaN == [nan |-> TRUE, v |-> 0]

Num(v) == [nan |-> FALSE, v |-> v]

\* Rack.__init__, line 442
rack_seeds(y_proj_de, y_proj_ad, pitch) ==
    <<y_proj_de - pitch \div 2, 0 - y_proj_de, y_proj_ad, (0 - y_proj_ad) + pitch \div 2>>

\* Rack.__init__, line 443
rack_x_vals(de, ad) == <<0 - de, 0 - de, ad, ad>>

\* self.clock.progress * self.circular_pitch
progress_shift(c, pitch) == (c.i * pitch) \div c.step_cnt

\* the mutation: each sequence over an interval of its own, a pitch longer
\* than the one before
rack_pt_sets_staggered(a, shift) ==
    [j \in 1 .. 4 |-> seedrange(a.st - a.circular_pitch, a.en + j * a.circular_pitch,
                                a.seeds[j] - shift, a.circular_pitch)]

\* lines 478-480
rack_pt_sets(a, shift) ==
    [j \in 1 .. 4 |-> seedrange(a.st - a.circular_pitch, a.en + a.circular_pitch,
                                a.seeds[j] - shift, a.circular_pitch)]

\* line 482
max_len(rows) == SetMax({Len(rows[j]) : j \in DOMAIN rows})

\* line 485: the rows handed to np.array
nan_padded(pt_sets) ==
    [j \in DOMAIN pt_sets |->
        LET row == [k \in DOMAIN pt_sets[j] |-> Num(pt_sets[j][k])]
        IN  IF Len(pt_sets[j]) = max_len(pt_sets) THEN row ELSE Append(row, NaN)]

\* np.array of rows of float: a 2d array only if the rows are equally long
is_rectangular(rows) == \A j \in DOMAIN rows : Len(rows[j]) = Len(rows[1])

\* np.argmin of column 0 (0-based): the first NaN if there is one, else the
\* first least value
argmin_col0(arr) ==
    LET nans == {j \in DOMAIN arr : arr[j][1].nan}
        least == {j \in DOMAIN arr : \A i \in DOMAIN arr : arr[j][1].v <= arr[i][1].v}
    IN  (IF nans # {} THEN SetMin(nans) ELSE SetMin(least)) - 1

\* np.roll(rows, -k, axis=0)
roll_rows(rows, k) == [j \in DOMAIN rows |-> rows[Remainder(j - 1 + k, Len(rows)) + 1]]

\* lines 490-495: the rolled array read column by column, the rolled x_vals
\* tiled alongside, NaNs masked out of both
masked_points(arr, x_vals, k) ==
    LET rolled == roll_rows(arr, k)
        xs == roll_rows(x_vals, k)
        rows == Len(arr)
        flat == [idx \in 1 .. rows * Len(arr[1]) |->
                    [x |-> xs[Remainder(idx - 1, rows) + 1],
                     y |-> rolled[Remainder(idx - 1, rows) + 1][(idx - 1) \div rows + 1]]]
        kept == SelectSeq(flat, LAMBDA e : ~e.y.nan)
    IN  [idx \in DOMAIN kept |-> [x |-> kept[idx].x, y |-> kept[idx].y.v]]

\* np.searchsorted: binary search over [lo, hi) of the 0-based indices
RECURSIVE searchsorted(_, _, _, _, _)
searchsorted(ys, key, right, lo, hi) ==
    IF lo >= hi THEN lo
    ELSE LET mid == lo + (hi - lo) \div 2
             below == IF right THEN ys[mid + 1] <= key ELSE ys[mid + 1] < key
         IN  IF below THEN searchsorted(ys, key, right, mid + 1, hi)
             ELSE searchsorted(ys, key, right, lo, mid)

\* a[i] of Python: negative indices count from the end
index_ok(i, n) == 0 - n <= i /\ i < n
py_at(a, i) == a[IF i < 0 THEN i + Len(a) + 1 ELSE i + 1]

\* a[lo:hi] of Python, as the 1-based bounds of SubSeq
py_slice(a, lo, hi) ==
    LET n == Len(a)
        clamp(i) == IF i < 0 THEN (IF i + n < 0 THEN 0 ELSE i + n) ELSE (IF i > n THEN n ELSE i)
    IN  SubSeq(a, clamp(lo) + 1, clamp(hi))

\* lines 498-505: the two boundary columns replaced by the intersections
\* with y = st and y = en, the columns between returned
stripped(pts, st, en) ==
    LET n == Len(pts)
        ys == [k \in DOMAIN pts |-> pts[k].y]
        i_st == searchsorted(ys, st, TRUE, 0, n)
        i_en == searchsorted(ys, en, FALSE, 0, n)
        cut(i, y) == lineline_intersec(py_at(pts, i - 1).x, py_at(pts, i - 1).y,
                                       py_at(pts, i).x, py_at(pts, i).y, 0, y, 1, y)
        whole == [k \in DOMAIN pts |-> [status |-> "ok", x_num |-> pts[k].x,
                                        y_num |-> pts[k].y, den |-> 1]]
        set(a, i, v) == [a EXCEPT ![IF i < 0 THEN i + n + 1 ELSE i + 1] = v]
    IN  IF ~(index_ok(i_st - 1, n) /\ index_ok(i_st, n)) THEN [status |-> "IndexError"]
        ELSE IF cut(i_st, st).status # "ok" THEN [status |-> cut(i_st, st).status]
        ELSE IF ~(index_ok(i_en - 1, n) /\ index_ok(i_en, n)) THEN [status |-> "IndexError"]
        ELSE IF cut(i_en, en).status # "ok" THEN [status |-> cut(i_en, en).status]
        ELSE [status |-> "ok",
              data |-> py_slice(set(set(whole, i_st - 1, cut(i_st, st)), i_en, cut(i_en, en)),
                                i_st - 1, i_en + 1)]

\* what get_data returns or raises, given the rows of line 485; rows of
\* unequal length make no 2d array, and column 0 of an array without
\* columns is an IndexError
rack_data(arr, a) ==
    IF ~is_rectangular(arr) THEN [status |-> "ragged"]
    ELSE IF Len(arr[1]) = 0 THEN [status |-> "IndexError"]
    ELSE stripped(masked_points(arr, a.x_vals, argmin_col0(arr)), a.st, a.en)

\* a Rack as __init__ and a setting of the boundaries leave it, and the
\* Clock at any frame
InitRack ==
    /\ SectorAbsent /\ WithinIdle /\ AngradIdle /\ EquiIdle
    /\ HalfToothIdle /\ LineIdle /\ SeedIdle /\ PureIdle /\ CtorIdle
    /\ UndercutIdle /\ SegIdle /\ GuiIdle
    /\ clock_instance = 1
    /\ \E n \in 1 .. ClockSteps, i \in 0 .. (ClockSteps - 1) :
          /\ i < n
          /\ clocks = <<[step_cnt |-> n, i |-> i]>>
          /\ \E m \in 1 .. MaxPitchMult, st \in SeedValues, en \in SeedValues,
                y_proj_de \in 0 .. MaxProj, y_proj_ad \in 0 .. MaxProj,
                de \in 1 .. MaxRackDepth, ad \in 1 .. MaxRackDepth :
                /\ st <= en
                /\ rk_args = [st |-> st, en |-> en, circular_pitch |-> 2 * n * m,
                              seeds |-> rack_seeds(y_proj_de, y_proj_ad, 2 * n * m),
                              x_vals |-> rack_x_vals(de, ad)]
    /\ rk_pt_sets = <<>> /\ rk_arr = <<>> /\ rk_data = <<>>

Rack_get_data ==
    /\ rk_data = <<>>
    /\ rk_pt_sets' = rack_pt_sets(rk_args, progress_shift(clocks[clock_instance],
                                                          rk_args.circular_pitch))
    /\ rk_arr' = nan_padded(rk_pt_sets')
    /\ rk_data' = <<rack_data(rk_arr', rk_args)>>
    /\ UNCHANGED <<rk_args, sectorVars, withinVars, angradVars, equiVars, htVars, lineVars,
                   seedVars, pureVars, clockVars, ctorVars, ucVars, segVars, guiVars>>

NextRack == Rack_get_data

SpecRack == InitRack /\ [][NextRack]_vars

\* ---------------------------------------------------------------- C30
\* C30: at every clock progress and for every boundary pair, the four
\* sequences of get_data differ in length by at most 1 and the k-th value of
\* each lies in the k-th pitch of the interval, so that a shorter sequence
\* lacks only the last value and one trailing NaN makes the rows equally
\* long.
C30_RackRowsRectangular ==
    rk_data # <<>> =>
        LET length == max_len(rk_pt_sets)
            lo == rk_args.st - rk_args.circular_pitch
        IN  \A j \in DOMAIN rk_pt_sets :
               /\ Len(rk_pt_sets[j]) \in {length - 1, length}
               /\ \A k \in DOMAIN rk_pt_sets[j] :
                     /\ lo + (k - 1) * rk_args.circular_pitch <= rk_pt_sets[j][k]
                     /\ rk_pt_sets[j][k] < lo + k * rk_args.circular_pitch
               /\ Len(rk_arr[j]) = length
               /\ \A k \in 1 .. (length - 1) : ~rk_arr[j][k].nan
               /\ rk_data[1].status # "ragged"

\* the rack moved off its first frame, two of its sequences of different
\* length
C30_Witness ==
    /\ rk_data # <<>>
    /\ clocks[clock_instance].i > 0
    /\ \E j \in DOMAIN rk_pt_sets, i \in DOMAIN rk_pt_sets :
          Len(rk_pt_sets[j]) < Len(rk_pt_sets[i])
    /\ \E j \in DOMAIN rk_arr : rk_arr[j][Len(rk_arr[j])].nan

====
